---- MODULE Spec2Model ----
(***************************************************************************)
(* ValutaTrade Hub: the rate cache (data/rates.json), the rate history     *)
(* (data/exchange_rates.json), the update coordinator of the parser        *)
(* service and the read paths of the core (get_rate, show_portfolio).      *)
(*                                                                         *)
(* Numbers that are Python floats in the source are exact rationals here   *)
(* ([n |-> numerator, d |-> denominator > 0], in lowest terms); float      *)
(* rounding is not modelled.  Timestamps (datetime.now().isoformat()) are  *)
(* the value of the clock `now`, in seconds.                               *)
(***************************************************************************)
EXTENDS Integers, Sequences, FiniteSets, TLC

(***************************************************************************)
(* Bounds of the model.                                                    *)
(***************************************************************************)
\* run_update is started at most MaxRuns times in a behaviour.
MaxRuns == 2
\* The clock stops advancing after MaxNow seconds.
MaxNow == 300
\* One step of the clock, in seconds.
TickSeconds == 150
\* Upstream quotes are 0 and MaxQuote.
MaxQuote == 2

(***************************************************************************)
(* Program constants.                                                      *)
(***************************************************************************)
\* settings.py: "RATES_TTL_SECONDS": 300
RATES_TTL_SECONDS == 300

\* config.py: BASE_CURRENCY, CRYPTO_CURRENCIES, FIAT_CURRENCIES (in tuple order)
BASE_CURRENCY == "USD"
CRYPTO_CURRENCIES == <<"BTC", "ETH", "SOL">>
FIAT_CURRENCIES == <<"EUR", "GBP", "RUB">>

\* settings.py: the data files; _write_json's temp file is filepath + ".tmp"
RATES_FILE == "data/rates.json"
EXCHANGE_RATES_FILE == "data/exchange_rates.json"

(***************************************************************************)
(* Optional values: None is <<>>, a present value x is <<x>>.              *)
(***************************************************************************)
None == <<>>
Some(x) == <<x>>

EmptyMap == [k \in {} |-> 0]

Range(s) == {s[i] : i \in DOMAIN s}

(***************************************************************************)
(* Exact rationals.                                                        *)
(***************************************************************************)
Abs(i) == IF i < 0 THEN 0 - i ELSE i

RECURSIVE GCD(_, _)
GCD(a, b) == IF b = 0 THEN a ELSE GCD(b, a % b)

\* n / d in lowest terms, for d > 0
Rat(n, d) ==
    LET g == GCD(Abs(n), d)
    IN  [n |-> (IF n < 0 THEN 0 - (Abs(n) \div g) ELSE n \div g), d |-> d \div g]

Zero == Rat(0, 1)
One == Rat(1, 1)

RMul(a, b) == Rat(a.n * b.n, a.d * b.d)

\* 1 / a, for a # 0
RInv(a) == IF a.n > 0 THEN Rat(a.d, a.n) ELSE Rat(0 - a.d, 0 - a.n)

RDiv(a, b) == RMul(a, RInv(b))

RAdd(a, b) ==
    LET g == GCD(a.d, b.d)
    IN  Rat(a.n * (b.d \div g) + b.n * (a.d \div g), (a.d \div g) * b.d)

RPos(a) == a.n > 0

(***************************************************************************)
(* Strings: upper() and lower() on the strings the model uses.             *)
(***************************************************************************)
upper(s) ==
    CASE s = "btc" -> "BTC"
      [] s = "usd" -> "USD"
      [] s = "eur" -> "EUR"
      [] OTHER -> s

lower(s) ==
    CASE s = "CoinGecko" -> "coingecko"
      [] s = "EXCHANGERATE" -> "exchangerate"
      [] s = "Binance" -> "binance"
      [] OTHER -> s

\* utils.get_rate_key: f"{from_currency.upper()}_{to_currency.upper()}"
get_rate_key(from_currency, to_currency) ==
    upper(from_currency) \o "_" \o upper(to_currency)

\* The codes a pair key of the model can be split into.
Codes == Range(CRYPTO_CURRENCIES) \cup Range(FIAT_CURRENCIES) \cup {BASE_CURRENCY}

\* pair_key.split("_")
split(pair_key) ==
    CHOOSE p \in Codes \X Codes : p[1] \o "_" \o p[2] = pair_key

(***************************************************************************)
(* Dictionaries are functions; dict.update and iteration order.            *)
(***************************************************************************)
\* d.update(e)
update(d, e) ==
    [k \in DOMAIN d \cup DOMAIN e |-> IF k \in DOMAIN e THEN e[k] ELSE d[k]]

\* Insertion order of the keys of all_rates: the clients in the order of
\* RatesUpdater.clients, each inserting its currencies in config order.
KeyOrder ==
    [i \in 1..Len(CRYPTO_CURRENCIES) |->
        CRYPTO_CURRENCIES[i] \o "_" \o BASE_CURRENCY]
    \o [i \in 1..Len(FIAT_CURRENCIES) |->
        FIAT_CURRENCIES[i] \o "_" \o BASE_CURRENCY]

\* list(d.keys()) for a dictionary keyed by pair keys
items(d) == SelectSeq(KeyOrder, LAMBDA k : k \in DOMAIN d)

(***************************************************************************)
(* The data files.  A file's content is a record with torn = FALSE and the *)
(* JSON value, or Torn: an empty or partly written file, which json.load   *)
(* rejects with JSONDecodeError.                                           *)
(*   rates.json:          top       the pair entries at the top level      *)
(*                                  (DataStorage's layout),                 *)
(*                        source    the top-level "source" label,          *)
(*                        has_pairs whether the key "pairs" is present,    *)
(*                        pairs     the entries under "pairs"              *)
(*                                  (DatabaseManager's layout),            *)
(*                        last_refresh                                      *)
(*   exchange_rates.json: records   the list of history records            *)
(***************************************************************************)
Torn == [torn |-> TRUE]

\* database.py _ensure_data_files: {"pairs": {}, "last_refresh": None}
DatabaseDefaultRates ==
    [torn |-> FALSE, top |-> EmptyMap, source |-> None,
     has_pairs |-> TRUE, pairs |-> EmptyMap, last_refresh |-> None]

\* utils.py DataStorage.__init__: the bundled default rates, written at time t
DataStorageDefaultRates(t) ==
    [torn |-> FALSE,
     top |-> ("EUR_USD" :> [rate |-> Rat(10786, 10000), updated_at |-> t])
          @@ ("BTC_USD" :> [rate |-> Rat(5933721, 100), updated_at |-> t])
          @@ ("RUB_USD" :> [rate |-> Rat(1016, 100000), updated_at |-> t])
          @@ ("ETH_USD" :> [rate |-> Rat(3720, 1), updated_at |-> t]),
     source |-> Some("default"),
     has_pairs |-> FALSE, pairs |-> EmptyMap, last_refresh |-> Some(t)]

\* database.py _ensure_data_files: EXCHANGE_RATES_FILE: []
EmptyHistory == [torn |-> FALSE, records |-> <<>>]

\* The mutant of TempFile: the data is written to the target file itself.
TempFileIsTarget(filepath) == filepath

\* database.py _write_json: temp_file = filepath + ".tmp"
TempFile(filepath) == filepath \o ".tmp"

Paths == {RATES_FILE, EXCHANGE_RATES_FILE}
AllPaths == Paths \cup {TempFile(p) : p \in Paths}

\* database.py _write_json, step 1: open(temp_file, "w") truncates or creates it
WriteJsonOpen(fs, filepath) ==
    [p \in DOMAIN fs \cup {TempFile(filepath)} |->
        IF p = TempFile(filepath) THEN Some(Torn) ELSE fs[p]]

\* database.py _write_json, step 2: json.dump(data, f) and close
WriteJsonDump(fs, filepath, data) ==
    [fs EXCEPT ![TempFile(filepath)] = Some(data)]

\* database.py _write_json, step 3: os.replace(temp_file, filepath)
WriteJsonReplace(fs, filepath) ==
    IF TempFile(filepath) = filepath
    THEN fs
    ELSE [fs EXCEPT ![filepath] = fs[TempFile(filepath)],
                    ![TempFile(filepath)] = None]

\* database.py _read_json: the JSON value, or None when the file is missing
\* or does not parse
ReadJson(fs, filepath) ==
    IF fs[filepath] = None \/ fs[filepath][1].torn THEN None ELSE fs[filepath]

\* database.py read_rates: _read_json(RATES_FILE) or default
read_rates(fs) ==
    IF ReadJson(fs, RATES_FILE) = None
    THEN DatabaseDefaultRates
    ELSE ReadJson(fs, RATES_FILE)[1]

\* database.py read_exchange_rates: _read_json(EXCHANGE_RATES_FILE) or []
read_exchange_rates(fs) ==
    IF ReadJson(fs, EXCHANGE_RATES_FILE) = None
    THEN <<>>
    ELSE ReadJson(fs, EXCHANGE_RATES_FILE)[1].records

\* utils.py DataStorage.load_rates / _read_json: the top-level dictionary of
\* rates.json; {} when the file does not parse.  Only its pair entries are
\* returned: "source", "last_refresh" and "pairs" are no pair keys.
load_rates(fs) ==
    IF fs[RATES_FILE][1].torn THEN EmptyMap ELSE fs[RATES_FILE][1].top

(***************************************************************************)
(* RatesStorage (parser_service/storage.py).                               *)
(***************************************************************************)
\* The mutant of update_cache: the cache is rebuilt from the batch alone.
update_cache_replacing(cache, rates, timestamp, source) ==
    [cache EXCEPT
        !.has_pairs = TRUE,
        !.pairs = [k \in DOMAIN rates |->
                     [rate |-> rates[k], updated_at |-> timestamp,
                      source |-> source]],
        !.last_refresh = Some(timestamp)]

\* _update_cache, lines 44-55: the value handed to write_rates
update_cache(cache, rates, timestamp, source) ==
    [cache EXCEPT
        !.has_pairs = TRUE,
        !.pairs = update(cache.pairs,
                         [k \in DOMAIN rates |->
                            [rate |-> rates[k], updated_at |-> timestamp,
                             source |-> source]]),
        !.last_refresh = Some(timestamp)]

\* record_id = f"{pair_key}_{timestamp}"
record_id(pair_key, timestamp) == pair_key \o "_" \o ToString(timestamp)

history_record(pair_key, rate, timestamp, source) ==
    [id |-> record_id(pair_key, timestamp),
     from_currency |-> split(pair_key)[1],
     to_currency |-> split(pair_key)[2],
     rate |-> rate, timestamp |-> timestamp, source |-> source]

\* The mutant of id_present: the check for an existing id is dropped.
id_never_present(history, id) == FALSE

\* _save_to_history, line 76: any(r.get("id") == record_id for r in history)
id_present(history, id) == \E i \in DOMAIN history : history[i].id = id

\* _save_to_history, lines 71-87: the loop over rates.items(), keys being the
\* keys of rates still to visit
RECURSIVE append_records(_, _, _, _, _)
append_records(history, keys, rates, timestamp, source) ==
    IF keys = <<>>
    THEN history
    ELSE LET k == Head(keys)
         IN  append_records(
                 IF id_present(history, record_id(k, timestamp))
                 THEN history
                 ELSE Append(history,
                             history_record(k, rates[k], timestamp, source)),
                 Tail(keys), rates, timestamp, source)

\* _save_to_history: the value handed to write_exchange_rates
save_to_history(history, rates, timestamp, source) ==
    [torn |-> FALSE,
     records |-> append_records(history, items(rates), rates, timestamp, source)]

(***************************************************************************)
(* The providers (parser_service/api_clients.py).  An upstream response is *)
(* [status, reason, data]: status "ok" is HTTP 200 with a well-formed      *)
(* body, whose quotes are data (code -> integer quote); any other status   *)
(* is a timeout, a connection error, a bad HTTP status or a malformed      *)
(* body, all of which end in ApiRequestError(reason).                      *)
(***************************************************************************)
ClientNames == <<"coingecko", "exchangerate">>

\* The currencies an upstream response of the model may quote.
QuotedCodes(name) ==
    IF name = "coingecko" THEN {"BTC", "ETH"} ELSE {"EUR"}

UpstreamQuotes == {0, MaxQuote}

PartialMaps(S, V) == UNION {[T -> V] : T \in SUBSET S}

Responses(name) ==
    {[status |-> "error", reason |-> "timeout", data |-> EmptyMap]}
    \cup {[status |-> "ok", reason |-> "", data |-> d] :
            d \in PartialMaps(QuotedCodes(name), UpstreamQuotes)}

Failure(reason) == [ok |-> FALSE, reason |-> reason, rates |-> EmptyMap]
Success(rates) == [ok |-> TRUE, reason |-> "", rates |-> rates]

\* CoinGeckoClient.fetch_rates: the quote is "1 CODE = rate BASE" and is
\* passed through as it is
CoinGeckoClient_fetch_rates(resp) ==
    IF resp.status # "ok"
    THEN Failure(resp.reason)
    ELSE LET codes == {c \in Range(CRYPTO_CURRENCIES) : c \in DOMAIN resp.data}
         IN  Success([k \in {c \o "_" \o BASE_CURRENCY : c \in codes} |->
                         Rat(resp.data[split(k)[1]], 1)])

\* The mutant of ExchangeRateApiClient_fetch_rates: a quote of 0 is not
\* skipped and the quotes are passed through, as CoinGeckoClient does.
ExchangeRateApiClient_fetch_rates_direct(resp) ==
    IF resp.status # "ok"
    THEN Failure(resp.reason)
    ELSE LET codes == {c \in Range(FIAT_CURRENCIES) : c \in DOMAIN resp.data}
         IN  Success([k \in {c \o "_" \o BASE_CURRENCY : c \in codes} |->
                         Rat(resp.data[split(k)[1]], 1)])

\* ExchangeRateApiClient.fetch_rates: the quote is "1 BASE = X CODE"; a quote
\* of 0 is skipped, any other is inverted
ExchangeRateApiClient_fetch_rates(resp) ==
    IF resp.status # "ok"
    THEN Failure(resp.reason)
    ELSE LET codes == {c \in Range(FIAT_CURRENCIES) :
                          c \in DOMAIN resp.data /\ resp.data[c] # 0}
         IN  Success([k \in {c \o "_" \o BASE_CURRENCY : c \in codes} |->
                         RInv(Rat(resp.data[split(k)[1]], 1))])

fetch_rates(name, resp) ==
    IF name = "coingecko"
    THEN CoinGeckoClient_fetch_rates(resp)
    ELSE ExchangeRateApiClient_fetch_rates(resp)

(***************************************************************************)
(* RatesUpdater.run_update (parser_service/updater.py).                    *)
(***************************************************************************)
\* The values of source_filter the model passes; "" stands for None.
SourceFilters == {"", "coingecko", "CoinGecko", "EXCHANGERATE", "Binance"}

\* The mutant of select_clients: the filter is ignored.
select_clients_all(source_filter) == ClientNames

\* run_update, lines 47-53: the clients to query, in dictionary order
select_clients(source_filter) ==
    IF source_filter # "" /\ lower(source_filter) \in Range(ClientNames)
    THEN <<lower(source_filter)>>
    ELSE ClientNames

\* The mutant of after_fetch: a failure discards what was fetched before it.
after_fetch_discarding(rates_so_far, got) ==
    IF got.ok THEN update(rates_so_far, got.rates) ELSE EmptyMap

\* The mutant of after_fetch: a pair fetched before keeps its rate.
after_fetch_first_wins(rates_so_far, got) ==
    IF got.ok /\ got.rates # EmptyMap
    THEN update(got.rates, rates_so_far)
    ELSE rates_so_far

\* run_update, lines 57-79: all_rates after one client was queried
after_fetch(rates_so_far, got) ==
    IF got.ok /\ got.rates # EmptyMap
    THEN update(rates_so_far, got.rates)
    ELSE rates_so_far

\* The mutant of collect_error: the failure of a client is not recorded.
collect_error_never(errors_so_far, name, got) == errors_so_far

\* run_update, lines 70-79: errors after one client was queried.  An entry
\* stands for the message f"Failed to fetch from {name}: {e}", of which it
\* keeps the two parts that vary.
collect_error(errors_so_far, name, got) ==
    IF got.ok
    THEN errors_so_far
    ELSE Append(errors_so_far, [client |-> name, reason |-> got.reason])

\* The mutant of clients_after: a client that failed is queried again.
clients_after_retrying(clients, got) ==
    IF got.ok THEN Tail(clients) ELSE clients

\* run_update, line 56: the for loop takes each selected client once,
\* whatever its fetch_rates gave
clients_after(clients, got) == Tail(clients)

\* The mutant of nothing_fetched: the commit is made whatever was fetched.
never_nothing_fetched(rates) == FALSE

\* run_update, line 82: "if all_rates:" fails
nothing_fetched(rates) == rates = EmptyMap

(***************************************************************************)
(* The read paths of the core (core/usecases.py).  get_rate and            *)
(* show_portfolio return a pair (success, text); a reply of the model      *)
(* holds the values the text is formatted from (rate as .8f, reverse rate  *)
(* and amounts as ,.2f; the formatting itself is not modelled).            *)
(***************************************************************************)
\* utils.validate_currency_code raises ValueError on an empty or blank code
valid_code(currency_code) == currency_code \notin {"", " "}

\* rates.get(key), and "if not rate_data"
has_rate(rates, key) == key \in DOMAIN rates

\* The mutant of inverse_usable: any non-zero rate is inverted.
inverse_usable_nonzero(reverse_rate) == reverse_rate.n # 0

\* get_rate, line 446 (show_portfolio, line 240): if reverse_rate > 0
inverse_usable(reverse_rate) == RPos(reverse_rate)

\* The mutant of inverse_of: the stored rate is returned as it is.
inverse_not_taken(reverse_rate) == reverse_rate

\* get_rate, line 447: rate = 1 / reverse_rate
inverse_of(reverse_rate) == RInv(reverse_rate)

Unavailable(from_currency, to_currency) ==
    [op |-> "get_rate", from |-> from_currency, to |-> to_currency,
     kind |-> "unavailable"]

\* RateService.get_rate, on the dictionary load_rates() returned
get_rate(rates, from_currency, to_currency) ==
    IF ~(valid_code(from_currency) /\ valid_code(to_currency))
    THEN [op |-> "get_rate", from |-> from_currency, to |-> to_currency,
          kind |-> "invalid"]
    ELSE
      LET from == upper(from_currency)
          to == upper(to_currency)
          rate_key == get_rate_key(from, to)
          reverse_key == get_rate_key(to, from)
      IN  IF ~has_rate(rates, rate_key)
          THEN IF has_rate(rates, reverse_key)
                  /\ inverse_usable(rates[reverse_key].rate)
               THEN [op |-> "get_rate", from |-> from, to |-> to,
                     kind |-> "ok",
                     rate |-> inverse_of(rates[reverse_key].rate),
                     reverse_rate |-> rates[reverse_key].rate,
                     updated_at |-> rates[reverse_key].updated_at]
               ELSE Unavailable(from, to)
          ELSE [op |-> "get_rate", from |-> from, to |-> to,
                kind |-> "ok",
                rate |-> rates[rate_key].rate,
                reverse_rate |-> IF RPos(rates[rate_key].rate)
                                 THEN RInv(rates[rate_key].rate) ELSE Zero,
                updated_at |-> rates[rate_key].updated_at]

\* show_portfolio, lines 226-245: the value of one wallet in the base currency
value_in_base(balance, currency_code, base_currency, rates) ==
    IF currency_code = base_currency
    THEN balance
    ELSE IF has_rate(rates, get_rate_key(currency_code, base_currency))
    THEN RMul(balance, rates[get_rate_key(currency_code, base_currency)].rate)
    ELSE IF has_rate(rates, get_rate_key(base_currency, currency_code))
    THEN IF inverse_usable(
                rates[get_rate_key(base_currency, currency_code)].rate)
         THEN RDiv(balance,
                   rates[get_rate_key(base_currency, currency_code)].rate)
         ELSE Zero
    ELSE Zero

\* sorted(wallets.items()): the wallet codes of the model in string order
SortedCodes == <<"BTC", "EUR", "USD">>

sorted(wallets) == SelectSeq(SortedCodes, LAMBDA c : c \in DOMAIN wallets)

\* show_portfolio, lines 221-247: the loop that adds up total_value, codes
\* being the wallets still to visit
RECURSIVE total_value(_, _, _, _, _)
total_value(total, codes, wallets, base_currency, rates) ==
    IF codes = <<>>
    THEN total
    ELSE total_value(
             RAdd(total, value_in_base(wallets[Head(codes)], Head(codes),
                                       base_currency, rates)),
             Tail(codes), wallets, base_currency, rates)

\* PortfolioService.show_portfolio for the user logged in (None: nobody),
\* on the list of portfolios and the dictionary load_rates() returned
show_portfolio(user, all_portfolios, base_currency, rates) ==
    IF user = None
    THEN [op |-> "show_portfolio", kind |-> "no_login"]
    ELSE IF user[1] \notin DOMAIN all_portfolios
    THEN [op |-> "show_portfolio", kind |-> "no_portfolio"]
    ELSE IF ~valid_code(base_currency)
    THEN [op |-> "show_portfolio", kind |-> "raised", error |-> "ValueError"]
    ELSE IF DOMAIN all_portfolios[user[1]] = {}
    THEN [op |-> "show_portfolio", kind |-> "empty"]
    ELSE LET wallets == all_portfolios[user[1]]
             base == upper(base_currency)
         IN  [op |-> "show_portfolio", kind |-> "ok", base |-> base,
              lines |-> [c \in DOMAIN wallets |->
                           value_in_base(wallets[c], c, base, rates)],
              total |-> total_value(Zero, sorted(wallets), wallets, base,
                                    rates)]

\* Portfolio.get_total_value (core/models.py), lines 344-353: the loop over
\* self._wallets.items(), codes being the wallets still to visit; only the
\* key "<currency>_<base>" is looked up
RECURSIVE get_total_value_loop(_, _, _, _, _)
get_total_value_loop(total, codes, wallets, base_currency, exchange_rates) ==
    IF codes = <<>>
    THEN total
    ELSE LET currency_code == Head(codes)
             rate_key == currency_code \o "_" \o base_currency
         IN  get_total_value_loop(
                 IF currency_code = base_currency
                 THEN RAdd(total, wallets[currency_code])
                 ELSE IF rate_key \in DOMAIN exchange_rates
                 THEN RAdd(total, RMul(wallets[currency_code],
                                       exchange_rates[rate_key].rate))
                 ELSE total,
                 Tail(codes), wallets, base_currency, exchange_rates)

\* Portfolio.get_total_value(base_currency, exchange_rates) of the portfolio
\* with these wallets
get_total_value(wallets, base_currency, exchange_rates) ==
    [op |-> "get_total_value", kind |-> "ok",
     base |-> upper(base_currency),
     total |-> get_total_value_loop(Zero, sorted(wallets), wallets,
                                    upper(base_currency), exchange_rates)]

(***************************************************************************)
(* Users, wallets and portfolios (core/models.py, core/usecases.py,        *)
(* core/utils.py).  users.json is a list of user records, portfolios.json  *)
(* maps a user id to the wallets of that user, a wallet is its balance.    *)
(* An amount is a float: an exact rational here, or NaN, which float()     *)
(* returns for the text "nan".                                             *)
(***************************************************************************)
NaN == [nan |-> TRUE]

\* x <= 0 on floats: every comparison with NaN is false
float_le_zero(x) == x # NaN /\ ~RPos(x)

\* a > b on floats
float_gt(a, b) == a # NaN /\ b # NaN /\ RPos(RAdd(a, RMul(Rat(0 - 1, 1), b)))

\* a + b and a - b on floats
float_add(a, b) == IF a = NaN \/ b = NaN THEN NaN ELSE RAdd(a, b)
float_sub(a, b) ==
    IF a = NaN \/ b = NaN THEN NaN ELSE RAdd(a, RMul(Rat(0 - 1, 1), b))

\* str.strip() on the strings the model passes
strip(s) == IF s = " " THEN "" ELSE s

\* User._hash_password(password, salt)
hash_password(password, salt) == <<"sha256", password \o salt>>

\* secrets.token_hex(8) of User.__init__: one value stands for all
Salt == "5a17"

\* User.to_dict() of a user created from a password
user_record(user_id, username, password) ==
    [user_id |-> user_id, username |-> username,
     hashed_password |-> hash_password(password, Salt), salt |-> Salt]

\* User.verify_password(password) on a stored record
verify_password(user_data, password) ==
    user_data.hashed_password = hash_password(password, user_data.salt)

\* DataStorage.find_user_by_username(username): the first record, or None
find_user_by_username(all_users, username) ==
    LET found == {i \in 1..Len(all_users) : all_users[i].username = username}
    IN IF found = {} THEN None
       ELSE Some(all_users[CHOOSE i \in found : \A j \in found : i <= j])

\* The mutant of get_next_user_id: the stored ids are not looked at.
get_next_user_id_first(all_users) == 1

\* DataStorage.get_next_user_id()
get_next_user_id(all_users) ==
    IF all_users = <<>> THEN 1
    ELSE LET ids == {all_users[i].user_id : i \in 1..Len(all_users)}
         IN (CHOOSE m \in ids : \A k \in ids : k <= m) + 1

\* AuthService.register_user(username, password): what it answers and what
\* it leaves in users.json and portfolios.json
register_user(all_users, all_portfolios, username, password) ==
    IF strip(username) = "" \/ Len(password) < 4
       \/ find_user_by_username(all_users, username) # None
    THEN [ok |-> FALSE, user_id |-> None, users |-> all_users,
          portfolios |-> all_portfolios]
    ELSE LET user_id == get_next_user_id(all_users)
         IN [ok |-> TRUE, user_id |-> Some(user_id),
             users |-> Append(all_users, user_record(user_id, username, password)),
             portfolios |-> (user_id :> EmptyMap) @@ all_portfolios]

\* The mutant of login_user: current_user is assigned before the password
\* is verified.
login_user_assigning_first(user, all_users, username, password) ==
    LET user_data == find_user_by_username(all_users, username)
    IN IF user_data = None THEN [ok |-> FALSE, current_user |-> user]
       ELSE [ok |-> verify_password(user_data[1], password),
             current_user |-> Some(user_data[1].user_id)]

\* AuthService.login_user(username, password): the user logged in afterwards
login_user(user, all_users, username, password) ==
    LET user_data == find_user_by_username(all_users, username)
    IN IF user_data = None THEN [ok |-> FALSE, current_user |-> user]
       ELSE IF ~verify_password(user_data[1], password)
       THEN [ok |-> FALSE, current_user |-> user]
       ELSE [ok |-> TRUE, current_user |-> Some(user_data[1].user_id)]

\* utils.validate_amount(amount): Some(amount), None for the ValueError
validate_amount(amount) == IF float_le_zero(amount) THEN None ELSE Some(amount)

\* PortfolioService._load_user_portfolio(): Some(wallets) or None
load_user_portfolio(user, all_portfolios) ==
    IF user = None THEN None
    ELSE IF user[1] \notin DOMAIN all_portfolios THEN None
    ELSE Some(all_portfolios[user[1]])

\* The mutant of save_portfolio: the entries are not compared with the
\* portfolio's user_id, every one is replaced.
save_portfolio_unmatched(all_portfolios, user_id, wallets) ==
    [u \in DOMAIN all_portfolios |-> wallets]

\* PortfolioService._save_portfolio(portfolio): portfolios.json afterwards
save_portfolio(all_portfolios, user_id, wallets) ==
    IF user_id \in DOMAIN all_portfolios
    THEN [all_portfolios EXCEPT ![user_id] = wallets]
    ELSE all_portfolios

\* The mutant of withdraw: the balance is not compared with the amount.
withdraw_unchecked(balance, amount) ==
    IF float_le_zero(amount) THEN None ELSE Some(float_sub(balance, amount))

\* Wallet.deposit(amount): Some(new balance), None for the ValueError
deposit(balance, amount) ==
    IF float_le_zero(amount) THEN None ELSE Some(float_add(balance, amount))

\* Wallet.withdraw(amount): Some(new balance), None for the ValueError
withdraw(balance, amount) ==
    IF float_le_zero(amount) \/ float_gt(amount, balance) THEN None
    ELSE Some(float_sub(balance, amount))

Rejected(all_portfolios) == [ok |-> FALSE, portfolios |-> all_portfolios]

\* PortfolioService.buy_currency(currency, amount): what it answers and
\* what it leaves in portfolios.json
buy_currency(user, all_portfolios, currency, amount) ==
    IF user = None THEN Rejected(all_portfolios)
    ELSE IF strip(currency) = "" \/ validate_amount(amount) = None
    THEN Rejected(all_portfolios)
    ELSE LET code == upper(strip(currency))
             portfolio == load_user_portfolio(user, all_portfolios)
         IN IF portfolio = None THEN Rejected(all_portfolios)
            ELSE LET wallets == portfolio[1]
                     old_balance == IF code \in DOMAIN wallets
                                    THEN wallets[code] ELSE Zero
                     new_balance == deposit(old_balance, amount)[1]
                 IN [ok |-> TRUE,
                     portfolios |->
                        save_portfolio(all_portfolios, user[1],
                                       (code :> new_balance) @@ wallets)]

\* PortfolioService.sell_currency(currency, amount)
sell_currency(user, all_portfolios, currency, amount) ==
    IF user = None THEN Rejected(all_portfolios)
    ELSE IF strip(currency) = "" \/ validate_amount(amount) = None
    THEN Rejected(all_portfolios)
    ELSE LET code == upper(strip(currency))
             portfolio == load_user_portfolio(user, all_portfolios)
         IN IF portfolio = None THEN Rejected(all_portfolios)
            ELSE LET wallets == portfolio[1]
                 IN IF code \notin DOMAIN wallets THEN Rejected(all_portfolios)
                    ELSE LET new_balance == withdraw(wallets[code], amount)
                         IN IF new_balance = None THEN Rejected(all_portfolios)
                            ELSE [ok |-> TRUE,
                                  portfolios |->
                                     save_portfolio(all_portfolios, user[1],
                                        (code :> new_balance[1]) @@ wallets)]

\* utils.DataStorage._read_json(file_path) opens the file for reading: the
\* content the file has after the call.  The mutant: the file is emptied,
\* as open(file_path, "w") does.
after_read_json_emptied(content) == EmptyMap

after_read_json(content) == content

\* utils.DataStorage._init_file(file_path, default_data) and
\* DatabaseManager._ensure_data_files: a file is created only when missing.
\* The mutant: the default is written in every case.
init_file_always(fs, path, default_data) ==
    [fs EXCEPT ![path] = Some(default_data)]

init_file(fs, path, default_data) ==
    IF fs[path] = None THEN [fs EXCEPT ![path] = Some(default_data)] ELSE fs

(***************************************************************************)
(* State.                                                                  *)
(***************************************************************************)
VARIABLES
    now,              \* the wall clock, in seconds
    files,            \* path -> None | Some(content): the data directory
    pc,               \* where run_update stands; "idle" between calls,
                      \* "done" when it has just ended (see result),
                      \* "crashed" when the process was killed
    requested_source, \* run_update: Some(source_filter) of the call in
                      \* progress ("" for None), None between calls
    clients_to_use,   \* run_update: the clients still to query
    all_rates,        \* run_update: the combined mapping pair key -> rate
    errors,           \* run_update: the error messages collected
    summary_ts,       \* run_update, line 83: timestamp of the summary
    timestamp,        \* save_rates, line 25: timestamp of the commit
    data,             \* the value being written by _write_json
    result,           \* how the last run_update ended
    runs,             \* number of run_update calls started
    fetched,          \* history: client -> what its fetch_rates gave
    pre_rates,        \* history: rates.json when run_update was called
    pre_history,      \* history: exchange_rates.json when it was called
    skipped,          \* history: ids _save_to_history found already present
    current_user,     \* AuthService.current_user: None | Some(user_id)
    portfolios,       \* portfolios.json: user_id -> (code -> balance)
    users,            \* users.json: the list of user records
    running,          \* RatesScheduler.running
    sched_pc,         \* where RatesScheduler.start stands
    writers,          \* the processes committing rates.json side by side
    reply             \* the answer of the last read-path call, NoReply
                      \* once anything else has happened

upd_vars == <<pc, requested_source, clients_to_use, all_rates, errors, summary_ts, timestamp,
              data, result, runs, fetched, pre_rates, pre_history, skipped>>

user_vars == <<current_user, portfolios, users>>

side_vars == <<running, sched_pc, writers>>

vars == <<now, files, upd_vars, user_vars, side_vars, reply>>

NoReply == [op |-> "none"]
NoResult == [kind |-> "none"]
NotQueried == [ok |-> FALSE, reason |-> "not queried", rates |-> EmptyMap]

InitFiles(rates) ==
    [p \in AllPaths |->
        CASE p = RATES_FILE -> Some(rates)
          [] p = EXCHANGE_RATES_FILE -> Some(EmptyHistory)
          [] OTHER -> None]

\* The processes that may commit rates.json at the same time
Writers == {1, 2}

NoWriter == [pc |-> "idle", data |-> None, holds |-> None]

\* No scheduler was started and no process is committing
InitSide ==
    /\ running = FALSE
    /\ sched_pc = "init"
    /\ writers = [w \in Writers |-> NoWriter]

InitUpdater ==
    /\ pc = "idle"
    /\ requested_source = None
    /\ clients_to_use = <<>>
    /\ all_rates = EmptyMap
    /\ errors = <<>>
    /\ summary_ts = None
    /\ timestamp = None
    /\ data = None
    /\ result = NoResult
    /\ runs = 0
    /\ fetched = [c \in Range(ClientNames) |-> NotQueried]
    /\ pre_rates = None
    /\ pre_history = None
    /\ skipped = {}

\* After construction: rates.json was created by whichever storage object
\* was constructed first (DatabaseManager._ensure_data_files or
\* DataStorage.__init__), the history is [], no temp file exists.
Init ==
    /\ now = 0
    /\ \E rates \in {DatabaseDefaultRates, DataStorageDefaultRates(0)} :
          files = InitFiles(rates)
    /\ InitUpdater
    /\ current_user = None
    /\ portfolios = EmptyMap
    /\ users = <<>>
    /\ InitSide
    /\ reply = NoReply

\* Time passes.  run_update reads the clock twice, at line 83 and in
\* save_rates; time that passes elsewhere inside the call has the effect of
\* time passing before the call.
Tick ==
    /\ pc \in {"idle", "save_rates"}
    /\ now + TickSeconds <= MaxNow
    /\ now' = now + TickSeconds
    /\ UNCHANGED <<files, upd_vars, user_vars, side_vars, reply>>

\* run_update, lines 42-53
StartUpdate(source_filter) ==
    /\ pc = "idle"
    /\ runs < MaxRuns
    /\ runs' = runs + 1
    /\ requested_source' = Some(source_filter)
    /\ clients_to_use' = select_clients(source_filter)
    /\ pre_rates' = files[RATES_FILE]
    /\ pre_history' = files[EXCHANGE_RATES_FILE]
    /\ pc' = "fetch"
    /\ reply' = NoReply
    /\ UNCHANGED <<user_vars, side_vars, now, files, all_rates, errors, summary_ts, timestamp, data,
                   result, fetched, skipped>>

\* run_update, lines 56-79: one iteration of the loop over the clients
Fetch(resp) ==
    /\ pc = "fetch"
    /\ clients_to_use # <<>>
    /\ LET name == Head(clients_to_use)
           got == fetch_rates(name, resp)
       IN  /\ resp \in Responses(name)
           /\ fetched' = [fetched EXCEPT ![name] = got]
           /\ all_rates' = after_fetch(all_rates, got)
           /\ errors' = collect_error(errors, name, got)
           /\ clients_to_use' = clients_after(clients_to_use, got)
    /\ reply' = NoReply
    /\ UNCHANGED <<user_vars, side_vars, now, files, pc, requested_source, summary_ts,
                   timestamp, data, result, runs, pre_rates, pre_history,
                   skipped>>

\* run_update, lines 99-102: nothing was fetched
RaiseNoRates ==
    /\ pc = "fetch"
    /\ clients_to_use = <<>>
    /\ nothing_fetched(all_rates)
    /\ result' = [kind |-> "raised", error |-> "ApiRequestError",
                  reason |-> "No rates fetched from any source. Check logs."]
    /\ pc' = "done"
    /\ reply' = NoReply
    /\ UNCHANGED <<user_vars, side_vars, now, files, requested_source, clients_to_use, all_rates, errors, summary_ts,
                   timestamp, data, runs, fetched, pre_rates, pre_history,
                   skipped>>

\* run_update, lines 82-83
TakeTimestamp ==
    /\ pc = "fetch"
    /\ clients_to_use = <<>>
    /\ ~nothing_fetched(all_rates)
    /\ summary_ts' = Some(now)
    /\ pc' = "save_rates"
    /\ reply' = NoReply
    /\ UNCHANGED <<user_vars, side_vars, now, files, requested_source, clients_to_use, all_rates, errors, timestamp,
                   data, result, runs, fetched, pre_rates, pre_history, skipped>>

\* save_rates, line 25, and _update_cache up to the call of write_rates
UpdateCache ==
    /\ pc = "save_rates"
    /\ timestamp' = Some(now)
    /\ data' = Some(update_cache(read_rates(files), all_rates, now,
                                 "ParserService"))
    /\ pc' = "write_rates_open"
    /\ reply' = NoReply
    /\ UNCHANGED <<user_vars, side_vars, now, files, requested_source, clients_to_use, all_rates, errors, summary_ts,
                   result, runs, fetched, pre_rates, pre_history, skipped>>

\* _save_to_history up to the call of write_exchange_rates
SaveToHistory ==
    /\ pc = "save_to_history"
    /\ LET history == read_exchange_rates(files)
       IN  /\ data' = Some(save_to_history(history, all_rates, timestamp[1],
                                           "ParserService"))
           /\ skipped' = {record_id(k, timestamp[1]) : k \in DOMAIN all_rates}
                         \cap {history[i].id : i \in DOMAIN history}
    /\ pc' = "write_history_open"
    /\ reply' = NoReply
    /\ UNCHANGED <<user_vars, side_vars, now, files, requested_source, clients_to_use, all_rates, errors, summary_ts,
                   timestamp, result, runs, fetched, pre_rates, pre_history>>

\* The file _write_json is writing at pc, and where run_update goes next.
WritingTo ==
    IF pc \in {"write_rates_open", "write_rates_dump", "write_rates_replace"}
    THEN RATES_FILE
    ELSE EXCHANGE_RATES_FILE

\* _write_json: open(temp_file, "w")
WriteOpen ==
    /\ pc \in {"write_rates_open", "write_history_open"}
    /\ files' = WriteJsonOpen(files, WritingTo)
    /\ pc' = IF pc = "write_rates_open"
             THEN "write_rates_dump" ELSE "write_history_dump"
    /\ reply' = NoReply
    /\ UNCHANGED <<user_vars, side_vars, now, requested_source, clients_to_use, all_rates, errors, summary_ts,
                   timestamp, data, result, runs, fetched, pre_rates,
                   pre_history, skipped>>

\* _write_json: json.dump(data, f)
WriteDump ==
    /\ pc \in {"write_rates_dump", "write_history_dump"}
    /\ files' = WriteJsonDump(files, WritingTo, data[1])
    /\ pc' = IF pc = "write_rates_dump"
             THEN "write_rates_replace" ELSE "write_history_replace"
    /\ reply' = NoReply
    /\ UNCHANGED <<user_vars, side_vars, now, requested_source, clients_to_use, all_rates, errors, summary_ts,
                   timestamp, data, result, runs, fetched, pre_rates,
                   pre_history, skipped>>

\* _write_json: os.replace(temp_file, filepath); after the history is written
\* run_update returns its summary (lines 94-98)
WriteReplace ==
    /\ pc \in {"write_rates_replace", "write_history_replace"}
    /\ files' = WriteJsonReplace(files, WritingTo)
    /\ IF pc = "write_rates_replace"
       THEN /\ pc' = "save_to_history"
            /\ UNCHANGED result
       ELSE /\ pc' = "done"
            /\ result' = [kind |-> "returned",
                          total_updated |-> Cardinality(DOMAIN all_rates),
                          last_refresh |-> summary_ts[1],
                          errors |-> errors]
    /\ data' = None
    /\ reply' = NoReply
    /\ UNCHANGED <<user_vars, side_vars, now, requested_source, clients_to_use, all_rates, errors, summary_ts,
                   timestamp, runs, fetched, pre_rates, pre_history, skipped>>

\* The locals of run_update between calls.
NoCall ==
    /\ pc' = "idle"
    /\ requested_source' = None
    /\ clients_to_use' = <<>>
    /\ all_rates' = EmptyMap
    /\ errors' = <<>>
    /\ summary_ts' = None
    /\ timestamp' = None
    /\ data' = None
    /\ result' = NoResult
    /\ fetched' = [c \in Range(ClientNames) |-> NotQueried]
    /\ pre_rates' = None
    /\ pre_history' = None
    /\ skipped' = {}

\* The process is killed while run_update is committing: the files stay as
\* they are and the locals of the call are gone; what the commit was about
\* (all_rates, timestamp, pre_rates, pre_history) is kept as history.  The
\* model follows the updater no further after a crash.
Crash ==
    /\ pc \notin {"idle", "done", "fetch", "crashed"}
    /\ pc' = "crashed"
    /\ requested_source' = None
    /\ clients_to_use' = <<>>
    /\ errors' = <<>>
    /\ summary_ts' = None
    /\ data' = None
    /\ fetched' = [c \in Range(ClientNames) |-> NotQueried]
    /\ skipped' = {}
    /\ reply' = NoReply
    /\ UNCHANGED <<user_vars, side_vars, now, files, all_rates, timestamp, result, runs,
                   pre_rates, pre_history>>

\* The call is over: its locals are gone, the caller has its result.
Finish ==
    /\ pc = "done"
    /\ NoCall
    /\ reply' = NoReply
    /\ UNCHANGED <<user_vars, side_vars, now, files, runs>>

\* The codes the model passes to the read paths.
QueryCodes == {"btc", "USD", "EUR"}

\* RateService.get_rate(from_currency, to_currency), called between updates
GetRate(from_currency, to_currency) ==
    /\ pc = "idle"
    /\ reply' = get_rate(load_rates(files), from_currency, to_currency)
    /\ files' = [files EXCEPT ![RATES_FILE] = after_read_json(@)]
    /\ UNCHANGED <<now, upd_vars, user_vars, side_vars>>

\* PortfolioService.show_portfolio(base_currency), called between updates
ShowPortfolio(base_currency) ==
    /\ pc = "idle"
    /\ reply' = show_portfolio(current_user, portfolios, base_currency,
                               load_rates(files))
    /\ portfolios' = after_read_json(portfolios)
    /\ files' = [files EXCEPT ![RATES_FILE] = after_read_json(@)]
    /\ UNCHANGED <<now, upd_vars, current_user, users, side_vars>>

\* Portfolio.get_total_value(base_currency, rates) of the portfolio of the
\* user logged in, with the dictionary load_rates() returns
GetTotalValue(base_currency) ==
    /\ pc = "idle"
    /\ current_user # None
    /\ current_user[1] \in DOMAIN portfolios
    /\ reply' = get_total_value(portfolios[current_user[1]], base_currency,
                                 load_rates(files))
    /\ UNCHANGED <<now, files, upd_vars, user_vars, side_vars>>

\* DatabaseManager.read_rates() by a reader (show-rates, show-portfolio of
\* the CLI) while run_update writes rates.json, or after it was killed
ReadRates ==
    /\ pc \in {"write_rates_open", "write_rates_dump", "write_rates_replace",
               "crashed"}
    /\ reply' = [op |-> "read_rates",
                 parsed |-> ReadJson(files, RATES_FILE) # None,
                 value |-> read_rates(files)]
    /\ UNCHANGED <<now, files, upd_vars, user_vars, side_vars>>

RunUpdate ==
    \/ \E source_filter \in SourceFilters : StartUpdate(source_filter)
    \/ \E name \in Range(ClientNames) : \E resp \in Responses(name) : Fetch(resp)
    \/ RaiseNoRates
    \/ TakeTimestamp
    \/ UpdateCache
    \/ WriteOpen
    \/ WriteDump
    \/ WriteReplace
    \/ SaveToHistory
    \/ Finish

Next ==
    \/ Tick
    \/ RunUpdate
    \/ Crash
    \/ \E from_currency, to_currency \in QueryCodes :
          GetRate(from_currency, to_currency)
    \/ ReadRates

Spec == Init /\ [][Next]_vars

(***************************************************************************)
(* The update coordinator with faults of its environment: a write of       *)
(* _write_json raises, and exchange_rates.json is damaged from outside.    *)
(***************************************************************************)
\* open(), json.dump() or os.replace() of _write_json raises OSError (disk
\* full, no permission, ...).  Nothing on the way up catches it (storage.py
\* 17-31, updater.py 92): run_update raises it.  The step that failed has
\* changed no file; a temp file opened before stays as it is.
WriteFails ==
    /\ pc \in {"write_rates_open", "write_rates_dump", "write_rates_replace",
               "write_history_open", "write_history_dump",
               "write_history_replace"}
    /\ result' = [kind |-> "raised", error |-> "OSError",
                  reason |-> WritingTo]
    /\ pc' = "done"
    /\ data' = None
    /\ reply' = NoReply
    /\ UNCHANGED <<user_vars, side_vars, now, files, requested_source, clients_to_use,
                   all_rates, errors, summary_ts, timestamp, runs, fetched,
                   pre_rates, pre_history, skipped>>

\* exchange_rates.json with these records in it and not parseable as JSON
\* (cut short, or with bytes added, by something else than this program).
Damaged(records) == [torn |-> TRUE, records |-> records]

\* exchange_rates.json is damaged between two updates.
DamageHistory ==
    /\ pc = "idle"
    /\ ReadJson(files, EXCHANGE_RATES_FILE) # None
    /\ read_exchange_rates(files) # <<>>
    /\ files' = [files EXCEPT ![EXCHANGE_RATES_FILE] =
                    Some(Damaged(read_exchange_rates(files)))]
    /\ reply' = NoReply
    /\ UNCHANGED <<user_vars, side_vars, now, upd_vars>>

NextFaults ==
    \/ RunUpdate
    \/ WriteFails
    \/ DamageHistory

SpecFaults == Init /\ [][NextFaults]_vars

(***************************************************************************)
(* The update coordinator over clients of any kind.  run_update takes a    *)
(* client for a BaseApiClient: fetch_rates raises or returns a mapping     *)
(* pair key -> rate, and two clients may return the same key (the two      *)
(* shipped clients never do: one returns crypto, the other fiat pairs).    *)
(***************************************************************************)
AnyPairKeys == {"BTC_USD", "EUR_USD"}

\* What fetch_rates of a client of any kind can give.
AnyResults ==
    {Failure("timeout")}
    \cup {Success(rates) :
            rates \in PartialMaps(AnyPairKeys, {One, Rat(MaxQuote, 1)})}

\* run_update, lines 56-79: one iteration of the loop, the client giving got
FetchAny(got) ==
    /\ pc = "fetch"
    /\ clients_to_use # <<>>
    /\ fetched' = [fetched EXCEPT ![Head(clients_to_use)] = got]
    /\ all_rates' = after_fetch(all_rates, got)
    /\ errors' = collect_error(errors, Head(clients_to_use), got)
    /\ clients_to_use' = clients_after(clients_to_use, got)
    /\ reply' = NoReply
    /\ UNCHANGED <<user_vars, side_vars, now, files, pc, requested_source, summary_ts,
                   timestamp, data, result, runs, pre_rates, pre_history,
                   skipped>>

NextClients ==
    \/ \E source_filter \in SourceFilters : StartUpdate(source_filter)
    \/ \E got \in AnyResults : FetchAny(got)
    \/ RaiseNoRates
    \/ TakeTimestamp
    \/ UpdateCache
    \/ WriteOpen
    \/ WriteDump
    \/ WriteReplace
    \/ SaveToHistory
    \/ Finish

SpecClients == Init /\ [][NextClients]_vars

(***************************************************************************)
(* The read paths alone, on every rates.json and every portfolio of a      *)
(* bounded set: the top level of rates.json is what an earlier             *)
(* DataStorage.save_rates(rates) wrote, the wallets are what earlier buy   *)
(* and sell calls of user 1 left.                                          *)
(***************************************************************************)
\* Balances are 0, 1/2 and MaxBalance.
MaxBalance == 3

StoredKeys == {"BTC_USD", "USD_BTC", "EUR_USD"}
StoredRates == {Rat(0 - 1, 1), Zero, Rat(MaxQuote, 1)}
Balances == {Zero, Rat(1, 2), Rat(MaxBalance, 1)}

StoredRatesFiles ==
    {[torn |-> FALSE, top |-> top, source |-> None, has_pairs |-> FALSE,
      pairs |-> EmptyMap, last_refresh |-> None] :
        top \in PartialMaps(StoredKeys, [rate : StoredRates, updated_at : {0}])}

InitQuery ==
    /\ now \in {0, MaxNow}
    /\ \E rates \in StoredRatesFiles : files = InitFiles(rates)
    /\ InitUpdater
    /\ \/ current_user = None /\ portfolios = EmptyMap /\ users = <<>>
       \/ /\ current_user = Some(1)
          /\ users = <<user_record(1, "alice", "1234")>>
          /\ \E wallets \in PartialMaps(Range(SortedCodes), Balances) :
                portfolios = (1 :> wallets)
    /\ InitSide
    /\ reply = NoReply

\* core/currencies.py: the codes of _CURRENCY_REGISTRY
CURRENCY_REGISTRY == {"USD", "EUR", "GBP", "RUB", "BTC", "ETH", "SOL"}

\* A code get_currency() does not know, passed to the read paths as well.
UnregisteredCodes == {"XYZ"}

\* One call of a read path on each store: the read paths change no file and
\* no portfolio, so a call after another one finds what the first one found.
NextQuery ==
    \/ \E from_currency, to_currency \in QueryCodes \cup UnregisteredCodes :
          reply = NoReply /\ GetRate(from_currency, to_currency)
    \/ \E base_currency \in QueryCodes \cup UnregisteredCodes :
          reply = NoReply /\ ShowPortfolio(base_currency)
    \/ \E base_currency \in QueryCodes :
          reply = NoReply /\ GetTotalValue(base_currency)

SpecQuery == InitQuery /\ [][NextQuery]_vars


(***************************************************************************)
(* The operations of the users (core/usecases.py): register, login,        *)
(* logout, buy, sell, and the construction of the two storage objects, as  *)
(* every start of the CLI does it.                                         *)
(***************************************************************************)
Usernames == {"alice", "bob", " "}
Passwords == {"1234", "123"}
TradeCodes == {"btc", "EUR", " "}
Amounts == {Rat(0 - 1, 1), Zero, Rat(MaxBalance, 1), NaN}

\* No balance of the portfolios is above MaxBalance: the bound of the model
WithinBound(all_portfolios) ==
    \A u \in DOMAIN all_portfolios : \A c \in DOMAIN all_portfolios[u] :
        ~float_gt(all_portfolios[u][c], Rat(MaxBalance, 1))

\* AuthService.register_user(username, password)
Register(username, password) ==
    LET done == register_user(users, portfolios, username, password)
    IN /\ users' = done.users
       /\ portfolios' = done.portfolios
       /\ reply' = [op |-> "register", ok |-> done.ok]
       /\ UNCHANGED <<now, files, upd_vars, current_user, side_vars>>

\* AuthService.login_user(username, password)
Login(username, password) ==
    LET done == login_user(current_user, users, username, password)
    IN /\ current_user' = done.current_user
       /\ users' = after_read_json(users)
       /\ reply' = [op |-> "login", ok |-> done.ok]
       /\ UNCHANGED <<now, files, upd_vars, portfolios, side_vars>>

\* AuthService.logout()
Logout ==
    /\ current_user' = None
    /\ reply' = [op |-> "logout"]
    /\ UNCHANGED <<now, files, upd_vars, portfolios, users, side_vars>>

\* PortfolioService.buy_currency(currency, amount); the rates are loaded
\* afterwards, for the cost it prints
Buy(currency, amount) ==
    LET done == buy_currency(current_user, portfolios, currency, amount)
    IN /\ WithinBound(done.portfolios)
       /\ portfolios' = done.portfolios
       /\ files' = [files EXCEPT ![RATES_FILE] = after_read_json(@)]
       /\ reply' = [op |-> "buy", ok |-> done.ok, currency |-> currency,
                    amount |-> amount]
       /\ UNCHANGED <<now, upd_vars, current_user, users, side_vars>>

\* PortfolioService.sell_currency(currency, amount)
Sell(currency, amount) ==
    LET done == sell_currency(current_user, portfolios, currency, amount)
    IN /\ portfolios' = done.portfolios
       /\ files' = [files EXCEPT ![RATES_FILE] = after_read_json(@)]
       /\ reply' = [op |-> "sell", ok |-> done.ok, currency |-> currency,
                    amount |-> amount]
       /\ UNCHANGED <<now, upd_vars, current_user, users, side_vars>>

\* DataStorage.__init__: _init_file of rates.json with the bundled rates
ConstructDataStorage ==
    /\ files' = init_file(files, RATES_FILE, DataStorageDefaultRates(now))
    /\ reply' = [op |-> "DataStorage"]
    /\ UNCHANGED <<now, upd_vars, user_vars, side_vars>>

\* DatabaseManager._ensure_data_files
ConstructDatabaseManager ==
    /\ files' = init_file(init_file(files, RATES_FILE, DatabaseDefaultRates),
                          EXCHANGE_RATES_FILE, EmptyHistory)
    /\ reply' = [op |-> "DatabaseManager"]
    /\ UNCHANGED <<now, upd_vars, user_vars, side_vars>>

UserOperations ==
    \/ \E username \in Usernames, password \in Passwords :
          Register(username, password)
    \/ \E username \in Usernames, password \in Passwords :
          Login(username, password)
    \/ Logout
    \/ \E currency \in TradeCodes, amount \in Amounts : Buy(currency, amount)
    \/ \E currency \in TradeCodes, amount \in Amounts : Sell(currency, amount)

NextUsers ==
    \/ UserOperations
    \/ ConstructDataStorage
    \/ ConstructDatabaseManager

SpecUsers == Init /\ [][NextUsers]_vars

(***************************************************************************)
(* The whole program around rates.json: run_update with failing writes,    *)
(* the operations of one user, the two read paths and the construction of  *)
(* the storage objects, in any order.                                      *)
(***************************************************************************)
\* run_update is started at most SystemRuns times in a behaviour of the
\* whole program.
SystemRuns == 1

NextSystem ==
    \/ runs < SystemRuns /\ StartUpdate("")
    \/ \E name \in Range(ClientNames) : \E resp \in Responses(name) : Fetch(resp)
    \/ RaiseNoRates
    \/ TakeTimestamp
    \/ UpdateCache
    \/ WriteOpen
    \/ WriteDump
    \/ WriteReplace
    \/ SaveToHistory
    \/ Finish
    \/ WriteFails
    \/ Register("alice", "1234")
    \/ Login("alice", "1234")
    \/ Logout
    \/ Buy("btc", Rat(MaxBalance, 1))
    \/ Sell("btc", Rat(MaxBalance, 1))
    \/ GetRate("btc", "USD")
    \/ ShowPortfolio("USD")
    \/ ConstructDataStorage
    \/ ConstructDatabaseManager

SpecSystem == Init /\ [][NextSystem]_vars

(***************************************************************************)
(* The providers alone: fetch_rates of each client on every upstream       *)
(* response of a bounded set, with quotes that are negative, zero and      *)
(* positive and with a currency the client is not responsible for.         *)
(***************************************************************************)
ProviderCodes(name) ==
    IF name = "coingecko" THEN {"BTC", "ETH", "DOGE"} ELSE {"EUR", "GBP", "JPY"}

ProviderQuotes == {0 - 1, 0, 1, MaxQuote}

ProviderResponses(name) ==
    {[status |-> "error", reason |-> "timeout", data |-> EmptyMap]}
    \cup {[status |-> "ok", reason |-> "", data |-> d] :
            d \in PartialMaps(ProviderCodes(name), ProviderQuotes)}

\* client.fetch_rates() with the upstream answering resp
CallFetchRates(name, resp) ==
    /\ reply' = [op |-> "fetch_rates", client |-> name, resp |-> resp,
                 got |-> fetch_rates(name, resp)]
    /\ UNCHANGED <<now, files, upd_vars, user_vars, side_vars>>

NextProviders ==
    \E name \in Range(ClientNames) : \E resp \in ProviderResponses(name) :
        CallFetchRates(name, resp)

SpecProviders == Init /\ [][NextProviders]_vars

(***************************************************************************)
(* RatesScheduler (parser_service/scheduler.py): start() runs the poll     *)
(* loop in its thread, stop() is called from another thread.  sched_pc is  *)
(* "init" before start(), "check" at the test of "while self.running",     *)
(* "call" before run_update, "update" inside it, "sleep" at time.sleep and *)
(* "returned" when start() has returned or was left by an exception.       *)
(***************************************************************************)
\* The mutant of loop_goes_on: the loop ignores the flag.
loop_goes_on_always(flag) == TRUE

\* scheduler.py 31: while self.running
loop_goes_on(flag) == flag

\* The mutant of after_run_update: the exception of run_update leaves the
\* loop, as it does without the except clause.
after_run_update_propagating(outcome) ==
    IF outcome.kind = "raised" THEN "returned" ELSE "sleep"

\* scheduler.py 32-40: where the loop stands after run_update returned or
\* raised; "except Exception" catches every error run_update raises
after_run_update(outcome) == "sleep"

\* What the providers answer to the scheduled updates: a failure, or a quote
\* of MaxQuote for each of their currencies
ScheduledResponses(name) ==
    {resp \in Responses(name) :
        \/ resp.status = "error"
        \/ /\ DOMAIN resp.data = QuotedCodes(name)
           /\ \A c \in DOMAIN resp.data : resp.data[c] = MaxQuote}

\* scheduler.py 26: self.running = True
SchedulerStart ==
    /\ sched_pc \in {"init", "stop_before_start"}
    /\ running' = TRUE
    /\ sched_pc' = "check"
    /\ UNCHANGED <<now, files, upd_vars, user_vars, writers, reply>>

\* scheduler.py 31: the test of the flag
SchedulerCheck ==
    /\ sched_pc = "check"
    /\ sched_pc' = IF loop_goes_on(running) THEN "call" ELSE "returned"
    /\ UNCHANGED <<now, files, upd_vars, user_vars, running, writers, reply>>

\* scheduler.py 34: self.updater.run_update() is called, with no filter;
\* the counter of the calls stops at MaxRuns
SchedulerCall ==
    /\ sched_pc = "call"
    /\ pc = "idle"
    /\ sched_pc' = "update"
    /\ runs' = IF runs < MaxRuns THEN runs + 1 ELSE runs
    /\ requested_source' = Some("")
    /\ clients_to_use' = select_clients("")
    /\ pre_rates' = files[RATES_FILE]
    /\ pre_history' = files[EXCHANGE_RATES_FILE]
    /\ pc' = "fetch"
    /\ reply' = NoReply
    /\ UNCHANGED <<user_vars, running, writers, now, files, all_rates, errors,
                   summary_ts, timestamp, data, result, fetched, skipped>>

\* scheduler.py 35-37: run_update has returned or raised
SchedulerAfterUpdate ==
    /\ sched_pc = "update"
    /\ pc = "done"
    /\ sched_pc' = after_run_update(result)
    /\ UNCHANGED <<now, files, upd_vars, user_vars, running, writers, reply>>

\* scheduler.py 40: time.sleep(self.interval_seconds); the clock stops at
\* MaxNow
SchedulerSleep ==
    /\ sched_pc = "sleep"
    /\ sched_pc' = "check"
    /\ now' = IF now + TickSeconds <= MaxNow THEN now + TickSeconds ELSE now
    /\ UNCHANGED <<files, upd_vars, user_vars, running, writers, reply>>

\* scheduler.py 42-45: stop(), called while the loop is running
SchedulerStop ==
    /\ sched_pc \notin {"init", "returned"}
    /\ running
    /\ running' = FALSE
    /\ UNCHANGED <<now, files, upd_vars, user_vars, sched_pc, writers, reply>>

\* The steps of the thread that called start()
SchedulerThread ==
    \/ SchedulerStart
    \/ SchedulerCheck
    \/ SchedulerCall
    \/ \E name \in Range(ClientNames) : \E resp \in ScheduledResponses(name) :
          Fetch(resp)
    \/ RaiseNoRates
    \/ TakeTimestamp
    \/ UpdateCache
    \/ WriteOpen
    \/ WriteDump
    \/ WriteReplace
    \/ SaveToHistory
    \/ SchedulerAfterUpdate
    \/ sched_pc # "update" /\ Finish
    \/ SchedulerSleep

NextScheduler ==
    \/ SchedulerThread
    \/ SchedulerStop

SpecScheduler == Init /\ [][NextScheduler]_vars

\* The thread of start() keeps running: a step of it that stays possible is
\* taken.  Nothing is assumed about stop().
SpecSchedulerLive == SpecScheduler /\ WF_vars(SchedulerThread)

\* scheduler.py 42-45: stop() is called before start() has executed its
\* first line; sched_pc "stop_before_start" keeps the fact that it was
SchedulerStopEarly ==
    /\ sched_pc = "init"
    /\ running' = FALSE
    /\ sched_pc' = "stop_before_start"
    /\ UNCHANGED <<now, files, upd_vars, user_vars, writers, reply>>

\* start() and stop() on two threads, in every order of their steps
NextSchedulerRace ==
    \/ SchedulerThread
    \/ SchedulerStop
    \/ SchedulerStopEarly

SpecSchedulerRace ==
    Init /\ [][NextSchedulerRace]_vars /\ WF_vars(SchedulerThread)

(***************************************************************************)
(* Two processes commit rates.json at the same time: each runs             *)
(* _update_cache (storage.py 33-57), whose write_rates goes through        *)
(* DatabaseManager._write_json (database.py 71-85).  Both use the temp     *)
(* file rates.json.tmp.  A process that has the temp file open keeps       *)
(* writing to the same file after another process has renamed it:          *)
(* writers[w].holds is the path under which the file it has open is found. *)
(***************************************************************************)
\* The batches of rates the processes commit
WriterBatches ==
    {("BTC_USD" :> Rat(MaxQuote, 1)), ("EUR_USD" :> One),
     ("BTC_USD" :> One) @@ ("EUR_USD" :> Rat(MaxQuote, 1))}

\* What a file holds after json.dump(data, f) wrote data from its start:
\* data when the file was empty; when another process had written into the
\* same file, data if it is at least as long, else data followed by the
\* rest of the other text
AfterDump(content, value) ==
    IF content = None \/ content = Some(Torn)
    THEN {Some(value)}
    ELSE {Some(value), Some(Torn)}

\* _update_cache, lines 42-54: cache = self.db.read_rates() and the value
\* handed to write_rates
WriterRead(w, rates) ==
    /\ writers[w].pc = "idle"
    /\ writers' = [writers EXCEPT ![w] =
          [pc |-> "open",
           data |-> Some(update_cache(read_rates(files), rates, now,
                                      "ParserService")),
           holds |-> None]]
    /\ UNCHANGED <<now, files, upd_vars, user_vars, running, sched_pc, reply>>

\* _write_json: open(temp_file, "w") creates the temp file or truncates the
\* one that is there
WriterOpen(w) ==
    /\ writers[w].pc = "open"
    /\ files' = WriteJsonOpen(files, RATES_FILE)
    /\ writers' = [writers EXCEPT ![w].pc = "dump",
                                  ![w].holds = Some(TempFile(RATES_FILE))]
    /\ UNCHANGED <<now, upd_vars, user_vars, running, sched_pc, reply>>

\* _write_json: json.dump(data, f) into the file that was opened, and close
WriterDump(w) ==
    /\ writers[w].pc = "dump"
    /\ LET path == writers[w].holds[1]
       IN \E content \in AfterDump(files[path], writers[w].data[1]) :
             files' = [files EXCEPT ![path] = content]
    /\ writers' = [writers EXCEPT ![w].pc = "replace", ![w].holds = None]
    /\ UNCHANGED <<now, upd_vars, user_vars, running, sched_pc, reply>>

\* _write_json: os.replace(temp_file, filepath); FileNotFoundError when the
\* temp file is not there.  A process that has the temp file open has it
\* under the new name afterwards.
WriterReplace(w) ==
    /\ writers[w].pc = "replace"
    /\ IF files[TempFile(RATES_FILE)] = None
       THEN /\ writers' = [writers EXCEPT ![w].pc = "failed"]
            /\ UNCHANGED files
       ELSE /\ files' = WriteJsonReplace(files, RATES_FILE)
            /\ writers' =
                 [v \in Writers |->
                    IF v = w THEN [writers[v] EXCEPT !.pc = "committed"]
                    ELSE IF writers[v].holds = Some(TempFile(RATES_FILE))
                    THEN [writers[v] EXCEPT !.holds = Some(RATES_FILE)]
                    ELSE writers[v]]
    /\ UNCHANGED <<now, upd_vars, user_vars, running, sched_pc, reply>>

NextWriters ==
    \/ \E w \in Writers : \E rates \in WriterBatches : WriterRead(w, rates)
    \/ \E w \in Writers : WriterOpen(w)
    \/ \E w \in Writers : WriterDump(w)
    \/ \E w \in Writers : WriterReplace(w)

SpecWriters == Init /\ [][NextWriters]_vars

(***************************************************************************)
(* A session of the services of core/usecases.py on one AuthService:       *)
(* register, login, logout, buy, sell and show_portfolio in any order,     *)
(* with amounts that are numbers.                                          *)
(***************************************************************************)
SessionAmounts == {Rat(0 - 1, 1), Zero, One, Rat(MaxBalance, 1)}

\* The trades of the session: any of the amounts in BTC, MaxBalance in EUR
SessionTrades ==
    {<<"btc", amount>> : amount \in SessionAmounts}
    \cup {<<"EUR", Rat(MaxBalance, 1)>>}

NextSession ==
    \/ \E username \in Usernames, password \in Passwords :
          Register(username, password)
    \/ \E username \in Usernames, password \in Passwords :
          Login(username, password)
    \/ Logout
    \/ \E trade \in SessionTrades : Buy(trade[1], trade[2])
    \/ \E trade \in SessionTrades : Sell(trade[1], trade[2])
    \/ ShowPortfolio("USD")

SpecSession == Init /\ [][NextSession]_vars

(***************************************************************************)
(* Properties.                                                             *)
(***************************************************************************)
RatesOnDisk == files[RATES_FILE][1]
HistoryOnDisk == files[EXCHANGE_RATES_FILE][1]

\* What its fetch_rates gave, for a client queried in the current call.
FetchFailed(c) == ~fetched[c].ok /\ fetched[c].reason # "not queried"
FetchGaveRates(c) == fetched[c].ok /\ fetched[c].rates # EmptyMap

Committed(pair_key, rate) ==
    /\ ~RatesOnDisk.torn
    /\ pair_key \in DOMAIN RatesOnDisk.pairs
    /\ RatesOnDisk.pairs[pair_key].rate = rate

\* C1: when run_update has ended and at least one client failed while at
\* least one other returned a non-empty mapping, run_update has returned
\* its summary (it did not raise) and every pair the successful clients
\* returned is in the rate store with the rate returned.
C1_PartialFailureCommits ==
    (/\ pc = "done"
     /\ \E c \in Range(ClientNames) : FetchFailed(c)
     /\ \E c \in Range(ClientNames) : FetchGaveRates(c))
    => /\ result.kind = "returned"
       /\ \A c \in Range(ClientNames) :
            fetched[c].ok =>
              \A k \in DOMAIN fetched[c].rates :
                Committed(k, fetched[c].rates[k])

\* C1, witness: the first client returned two pairs, the second failed, and
\* run_update returned.
C1_Witness ==
    /\ pc = "done"
    /\ result.kind = "returned"
    /\ fetched["coingecko"].ok
    /\ Cardinality(DOMAIN fetched["coingecko"].rates) = 2
    /\ FetchFailed("exchangerate")

\* C2: when run_update has ended and no client returned a non-empty mapping,
\* run_update has raised, and rates.json and exchange_rates.json are what
\* they were when it was called.
C2_TotalFailureLeavesStore ==
    (/\ pc = "done"
     /\ \A c \in Range(ClientNames) : ~FetchGaveRates(c))
    => /\ result.kind = "raised"
       /\ files[RATES_FILE] = pre_rates
       /\ files[EXCHANGE_RATES_FILE] = pre_history

\* C2, witness: one client failed, the other returned an empty mapping, the
\* call raised, and the store it left alone holds pairs of an earlier commit.
C2_Witness ==
    /\ pc = "done"
    /\ result.kind = "raised"
    /\ FetchFailed("coingecko")
    /\ fetched["exchangerate"].ok
    /\ fetched["exchangerate"].rates = EmptyMap
    /\ RatesOnDisk.pairs # EmptyMap
    /\ HistoryOnDisk.records # <<>>

\* The reply of get_rate for a pair of two different currencies.
RateReply == reply.op = "get_rate" /\ reply.kind # "invalid" /\ reply.from # reply.to

Fresh(updated_at) == now - updated_at < RATES_TTL_SECONDS

\* C3: get_rate(A, B), A # B, answered while the rate store holds a pair A_B
\* committed by run_update with rate r at a time t, now - t < ttl, returns
\* the rate r with t as its updated_at.
C3_CommittedRateIsRead ==
    (/\ RateReply
     /\ get_rate_key(reply.from, reply.to) \in DOMAIN RatesOnDisk.pairs
     /\ Fresh(RatesOnDisk.pairs[get_rate_key(reply.from, reply.to)].updated_at))
    => /\ reply.kind = "ok"
       /\ reply.rate = RatesOnDisk.pairs[get_rate_key(reply.from, reply.to)].rate
       /\ reply.updated_at =
            RatesOnDisk.pairs[get_rate_key(reply.from, reply.to)].updated_at

\* C4: when the dictionary get_rate loads holds no entry A_B and holds a
\* fresh entry B_A with rate r > 0, get_rate(A, B) succeeds with a rate
\* whose product with r is 1, the reverse rate r and the updated_at of B_A.
C4_InverseRate ==
    LET rates == load_rates(files)
        direct == get_rate_key(reply.from, reply.to)
        inverse == get_rate_key(reply.to, reply.from)
    IN  (/\ RateReply
         /\ direct \notin DOMAIN rates
         /\ inverse \in DOMAIN rates
         /\ Fresh(rates[inverse].updated_at)
         /\ RPos(rates[inverse].rate))
        => /\ reply.kind = "ok"
           /\ RMul(reply.rate, rates[inverse].rate) = One
           /\ reply.reverse_rate = rates[inverse].rate
           /\ reply.updated_at = rates[inverse].updated_at

\* C4, witness: get_rate(BTC, USD) was answered from a fresh USD_BTC = 2
\* alone, with the rate 1/2.
C4_Witness ==
    /\ RateReply
    /\ reply.from = "BTC" /\ reply.to = "USD"
    /\ "BTC_USD" \notin DOMAIN load_rates(files)
    /\ "USD_BTC" \in DOMAIN load_rates(files)
    /\ load_rates(files)["USD_BTC"].rate = Rat(MaxQuote, 1)
    /\ Fresh(load_rates(files)["USD_BTC"].updated_at)
    /\ reply.kind = "ok"
    /\ reply.rate = Rat(1, MaxQuote)

\* C5: get_rate(A, B) reports the rate unavailable when every entry it
\* loads for the pair, direct and inverse, has now - updated_at >= ttl.
C5_StaleIsUnavailable ==
    LET rates == load_rates(files)
        keys == {get_rate_key(reply.from, reply.to),
                 get_rate_key(reply.to, reply.from)} \cap DOMAIN rates
    IN  (RateReply /\ \A k \in keys : ~Fresh(rates[k].updated_at))
        => reply.kind = "unavailable"

\* C6: get_rate(A, A) succeeds with the rate 1.
C6_SameCurrencyIsOne ==
    (reply.op = "get_rate" /\ reply.kind # "invalid" /\ reply.from = reply.to)
    => (reply.kind = "ok" /\ reply.rate = One)

\* C7: when the only entry get_rate loads for the pair {A, B} is B_A with a
\* rate <= 0, get_rate(A, B) reports the rate unavailable, and
\* show_portfolio values a wallet in A at 0 in the base B; no rational of a
\* reply has the denominator 0.
C7_NonPositiveRateNotInverted ==
    LET rates == load_rates(files)
        OnlyBadInverse(a, b) ==
            /\ a # b
            /\ get_rate_key(a, b) \notin DOMAIN rates
            /\ get_rate_key(b, a) \in DOMAIN rates
            /\ ~RPos(rates[get_rate_key(b, a)].rate)
    IN  /\ (RateReply /\ OnlyBadInverse(reply.from, reply.to))
            => reply.kind = "unavailable"
        /\ (reply.op = "get_rate" /\ reply.kind = "ok")
            => (reply.rate.d > 0 /\ reply.reverse_rate.d > 0)
        /\ (reply.op = "show_portfolio" /\ reply.kind = "ok")
            => /\ reply.total.d > 0
               /\ \A c \in DOMAIN reply.lines :
                    /\ reply.lines[c].d > 0
                    /\ OnlyBadInverse(c, reply.base) => reply.lines[c] = Zero

\* C7, witness: get_rate(BTC, USD) was refused while USD_BTC = 0 was the
\* only entry of the pair.
C7_Witness ==
    /\ reply = Unavailable("BTC", "USD")
    /\ "BTC_USD" \notin DOMAIN load_rates(files)
    /\ "USD_BTC" \in DOMAIN load_rates(files)
    /\ load_rates(files)["USD_BTC"].rate = Zero

\* The sum of f[c] over the codes c of S.
RECURSIVE SumOver(_, _)
SumOver(f, S) ==
    IF S = {}
    THEN Zero
    ELSE LET c == CHOOSE x \in S : TRUE
         IN  RAdd(f[c], SumOver(f, S \ {c}))

\* What C8 expects a wallet to add to the total: the balance in the base
\* currency, balance * rate when get_rate has a rate, 0 when it has none.
ExpectedValue(balance, currency_code, base_currency, rates) ==
    IF currency_code = base_currency
    THEN balance
    ELSE IF get_rate(rates, currency_code, base_currency).kind = "ok"
    THEN RMul(balance, get_rate(rates, currency_code, base_currency).rate)
    ELSE Zero

\* C8: the valuation of the portfolio of a user who holds wallets, by
\* show_portfolio and by Portfolio.get_total_value, succeeds whatever rates
\* are missing, and its total is the sum over the wallets of: the balance
\* (base currency), balance * rate (get_rate has a direct or inverse rate),
\* 0 (it has none).
C8_PortfolioTotal ==
    (/\ reply.op \in {"show_portfolio", "get_total_value"}
     /\ current_user # None
     /\ current_user[1] \in DOMAIN portfolios
     /\ DOMAIN portfolios[current_user[1]] # {})
    => LET wallets == portfolios[current_user[1]]
       IN  /\ reply.kind = "ok"
           /\ reply.total =
                SumOver([c \in DOMAIN wallets |->
                           ExpectedValue(wallets[c], c, reply.base,
                                         load_rates(files))],
                        DOMAIN wallets)

\* rates.json as the commit of the current call leaves it.
PostRates ==
    Some(update_cache(pre_rates[1], all_rates, timestamp[1], "ParserService"))

\* C9: from the call of run_update on, through every step of its commit,
\* also when the process is killed, rates.json is a complete snapshot: the
\* one before the commit or the one after it; and so is what a reader gets
\* who reads it meanwhile.
C9_AtomicCommit ==
    pre_rates # None =>
      /\ ~RatesOnDisk.torn
      /\ \/ files[RATES_FILE] = pre_rates
         \/ timestamp # None /\ files[RATES_FILE] = PostRates
      /\ reply.op = "read_rates" =>
           /\ reply.parsed
           /\ \/ Some(reply.value) = pre_rates
              \/ timestamp # None /\ Some(reply.value) = PostRates

\* C9, witness: the process was killed between open and json.dump of the
\* temp file, and a reader then read rates.json.
C9_Witness ==
    /\ pc = "crashed"
    /\ files[TempFile(RATES_FILE)] = Some(Torn)
    /\ reply.op = "read_rates"
    /\ all_rates # EmptyMap

\* C10: no two records of the history have the same id.
C10_HistoryIdsUnique ==
    /\ ~HistoryOnDisk.torn
    /\ \A i, j \in DOMAIN HistoryOnDisk.records :
         i # j => HistoryOnDisk.records[i].id # HistoryOnDisk.records[j].id

\* C10, witness: a run_update returned whose save found an id of its batch
\* already in the history and added no second record for it.
C10_Witness ==
    /\ pc = "done"
    /\ result.kind = "returned"
    /\ skipped # {}
    /\ Len(HistoryOnDisk.records) = Cardinality(DOMAIN all_rates)


\* The pair keys the clients returned in the current call.
CombinedKeys == UNION {DOMAIN fetched[c].rates : c \in Range(ClientNames)}

\* C11: when run_update has returned its summary, total_updated is the
\* number of distinct pair keys the clients returned, all of them committed,
\* and errors has exactly one entry for each client whose fetch failed,
\* naming it, and no entry for any other client.
C11_SummaryCounts ==
    (pc = "done" /\ result.kind = "returned")
    => /\ result.total_updated = Cardinality(CombinedKeys)
       /\ CombinedKeys \subseteq DOMAIN RatesOnDisk.pairs
       /\ \A c \in Range(ClientNames) :
            FetchFailed(c) =>
              Cardinality({i \in DOMAIN result.errors :
                             result.errors[i].client = c}) = 1
       /\ \A i \in DOMAIN result.errors : FetchFailed(result.errors[i].client)

\* C11, witness: the first client failed, the second returned one pair; the
\* summary counts one pair and one error.
C11_Witness ==
    /\ pc = "done"
    /\ result.kind = "returned"
    /\ FetchFailed("coingecko")
    /\ DOMAIN fetched["exchangerate"].rates = {"EUR_USD"}
    /\ result.total_updated = 1
    /\ Len(result.errors) = 1
    /\ result.errors[1].client = "coingecko"

\* The call in progress was given a source_filter.
FilterGiven == requested_source # None /\ requested_source[1] # ""

\* C12: during a run_update whose source_filter is the name of no
\* registered client, fetch_rates of no client is called.
C12_UnknownFilterSelectsNone ==
    (FilterGiven /\ lower(requested_source[1]) \notin Range(ClientNames))
    => \A c \in Range(ClientNames) : fetched[c] = NotQueried

\* The pair keys a client can return.
ProviderKeys(c) ==
    {code \o "_" \o BASE_CURRENCY :
        code \in Range(IF c = "coingecko"
                       THEN CRYPTO_CURRENCIES ELSE FIAT_CURRENCIES)}

\* C13: during a run_update whose source_filter is, letter case ignored,
\* the name of a registered client, fetch_rates of no other client is
\* called (and the one named has been called when the call ends), and
\* every entry of rates.json whose key that client cannot return is what it
\* was when run_update was called.
C13_FilterSelectsOne ==
    (FilterGiven /\ lower(requested_source[1]) \in Range(ClientNames))
    => LET c == lower(requested_source[1])
       IN  /\ \A o \in Range(ClientNames) \ {c} : fetched[o] = NotQueried
           /\ pc = "done" => fetched[c] # NotQueried
           /\ RatesOnDisk.top = pre_rates[1].top
           /\ \A k \in DOMAIN pre_rates[1].pairs \ ProviderKeys(c) :
                /\ k \in DOMAIN RatesOnDisk.pairs
                /\ RatesOnDisk.pairs[k] = pre_rates[1].pairs[k]

\* C13, witness: run_update("CoinGecko") has returned after committing
\* BTC_USD, while EUR_USD of an earlier update is still there with its
\* earlier updated_at.
C13_Witness ==
    /\ pc = "done"
    /\ result.kind = "returned"
    /\ requested_source = Some("CoinGecko")
    /\ "EUR_USD" \in DOMAIN RatesOnDisk.pairs
    /\ RatesOnDisk.pairs["EUR_USD"].updated_at < now
    /\ "BTC_USD" \in DOMAIN RatesOnDisk.pairs
    /\ RatesOnDisk.pairs["BTC_USD"].updated_at = now

\* What the outcome of run_update tells of the failures of the clients.
CarriedErrors == IF "errors" \in DOMAIN result THEN result.errors ELSE <<>>

\* C14: when run_update has raised, the error raised carries, for each
\* client whose fetch failed, the reason of that failure.
C14_RaisedErrorCarriesReasons ==
    (pc = "done" /\ result.kind = "raised")
    => \A c \in Range(ClientNames) :
         FetchFailed(c) =>
           \E i \in DOMAIN CarriedErrors :
              /\ CarriedErrors[i].client = c
              /\ CarriedErrors[i].reason = fetched[c].reason

\* C15: once _update_cache has replaced rates.json, every pair of the batch
\* has the rate of the batch, the timestamp of the commit as updated_at and
\* the source given; last_refresh is that timestamp; every other entry,
\* under "pairs" or at the top level, is what it was before the commit.
C15_CommitIsUpsert ==
    (pc \in {"save_to_history", "write_history_open", "write_history_dump",
             "write_history_replace"}
     \/ (pc = "done" /\ result.kind = "returned"))
    => LET pre == pre_rates[1]
           post == RatesOnDisk
       IN  /\ \A k \in DOMAIN all_rates :
                /\ k \in DOMAIN post.pairs
                /\ post.pairs[k] = [rate |-> all_rates[k],
                                    updated_at |-> timestamp[1],
                                    source |-> "ParserService"]
           /\ post.last_refresh = timestamp
           /\ \A k \in DOMAIN pre.pairs \ DOMAIN all_rates :
                /\ k \in DOMAIN post.pairs
                /\ post.pairs[k] = pre.pairs[k]
           /\ post.top = pre.top
           /\ post.source = pre.source

\* C15, witness: a commit of BTC_USD at a later time has overwritten the
\* BTC_USD of an earlier commit and kept its EUR_USD, older than the TTL
\* allows or not.
C15_Witness ==
    /\ pc = "save_to_history"
    /\ DOMAIN all_rates = {"BTC_USD"}
    /\ DOMAIN pre_rates[1].pairs = {"BTC_USD", "EUR_USD"}
    /\ pre_rates[1].pairs["BTC_USD"].rate # all_rates["BTC_USD"]
    /\ pre_rates[1].pairs["EUR_USD"].updated_at < timestamp[1]
    /\ RatesOnDisk.pairs["EUR_USD"] = pre_rates[1].pairs["EUR_USD"]
    /\ RatesOnDisk.pairs["BTC_USD"].rate = all_rates["BTC_USD"]


\* C16: when run_update has raised because a write of its commit failed,
\* rates.json is what it was when run_update was called.
C16_FailedCommitLeavesStore ==
    (pc = "done" /\ result.kind = "raised" /\ result.error = "OSError")
    => files[RATES_FILE] = pre_rates

\* The records in a history file, parseable or not.
RecordsIn(file) == IF file = None THEN <<>> ELSE file[1].records

IsPrefix(s, t) == Len(s) <= Len(t) /\ SubSeq(t, 1, Len(s)) = s

\* C17: every step leaves the records exchange_rates.json held before it as
\* a prefix of the records it holds after it, also when the file did not
\* parse.
C17_HistoryAppendOnly ==
    [][IsPrefix(RecordsIn(files[EXCHANGE_RATES_FILE]),
                RecordsIn(files'[EXCHANGE_RATES_FILE]))]_vars


\* C18: when run_update has returned and both clients returned a pair key,
\* the rate committed for it is the one of the client queried later (the
\* second of the dictionary of clients), and total_updated counts the key
\* once.
C18_LaterClientWins ==
    (pc = "done" /\ result.kind = "returned")
    => /\ \A k \in DOMAIN fetched[ClientNames[1]].rates
                   \cap DOMAIN fetched[ClientNames[2]].rates :
            Committed(k, fetched[ClientNames[2]].rates[k])
       /\ result.total_updated = Cardinality(CombinedKeys)

\* C18, witness: both clients returned BTC_USD, with different rates, the
\* first one EUR_USD as well; two pairs were counted.
C18_Witness ==
    /\ pc = "done"
    /\ result.kind = "returned"
    /\ DOMAIN fetched["coingecko"].rates = {"BTC_USD", "EUR_USD"}
    /\ DOMAIN fetched["exchangerate"].rates = {"BTC_USD"}
    /\ fetched["coingecko"].rates["BTC_USD"] = Rat(MaxQuote, 1)
    /\ fetched["exchangerate"].rates["BTC_USD"] = One
    /\ RatesOnDisk.pairs["BTC_USD"].rate = One
    /\ result.total_updated = 2


\* C19: get_rate with a code that is not in the currency registry, and
\* show_portfolio with such a base currency, end with an unknown-currency
\* error, which is neither the reply "rate unavailable" nor a success.
C19_UnknownCurrencyIsError ==
    /\ (/\ reply.op = "get_rate"
        /\ \/ upper(reply.from) \notin CURRENCY_REGISTRY
           \/ upper(reply.to) \notin CURRENCY_REGISTRY)
       => reply.kind = "unknown_currency"
    /\ (/\ reply.op = "show_portfolio"
        /\ reply.kind = "ok"
        /\ reply.base \notin CURRENCY_REGISTRY)
       => reply.kind = "unknown_currency"

\* C20: in the reply of show_portfolio the line of a wallet for which
\* get_rate has no rate towards the base currency is not the line of a
\* priced wallet that is worth 0: it does not show the amount 0.
C20_UnpricedIsMarked ==
    (reply.op = "show_portfolio" /\ reply.kind = "ok")
    => \A c \in DOMAIN reply.lines :
         (/\ c # reply.base
          /\ get_rate(load_rates(files), c, reply.base).kind = "unavailable")
         => reply.lines[c] # Zero


\* C21: a call of get_rate or of show_portfolio is a pure read: the step
\* leaves every data file (rates.json, the rate history), users.json,
\* portfolios.json with every balance and the user logged in as they were,
\* and no provider is queried by it, whatever the call answers.
C21_ReadPathsArePureReads ==
    [][reply'.op \in {"get_rate", "show_portfolio"}
       => /\ files' = files
          /\ users' = users
          /\ portfolios' = portfolios
          /\ current_user' = current_user
          /\ fetched' = fetched
          /\ pc' = pc /\ runs' = runs]_vars

C21_Witness ==
    /\ reply.op = "show_portfolio"
    /\ reply.kind = "ok"
    /\ users # <<>>
    /\ \E c \in DOMAIN portfolios[1] : RPos(portfolios[1][c])
    /\ \E c \in DOMAIN reply.lines :
          c # reply.base
          /\ get_rate(load_rates(files), c, reply.base).kind = "unavailable"


\* C30: after any sequence of buy and sell calls, accepted or rejected,
\* every wallet balance of every portfolio, as the call leaves it in memory
\* and in portfolios.json, is a number that is >= 0.
C30_BalancesNotNegative ==
    \A u \in DOMAIN portfolios : \A c \in DOMAIN portfolios[u] :
        LET balance == portfolios[u][c]
        IN balance # NaN /\ (balance = Zero \/ RPos(balance))

\* The balances that are numbers are never below zero
C30_NumbersNotNegative ==
    \A u \in DOMAIN portfolios : \A c \in DOMAIN portfolios[u] :
        LET balance == portfolios[u][c]
        IN balance # NaN => (balance = Zero \/ RPos(balance))


\* The steps that change rates.json are the os.replace of run_update's
\* commit of the rates, and no other step of the program
C22_OnlyTheCommitWrites ==
    [][files'[RATES_FILE] # files[RATES_FILE]
       => pc = "write_rates_replace" /\ pc' = "save_to_history"]_vars

\* C22: once rates.json exists, its content changes only in the commit of a
\* run_update that succeeds: no step of register, login, logout, buy, sell,
\* get_rate, show_portfolio or of the construction of a storage object
\* changes it, and when run_update has failed, rates.json is what it was
\* when run_update was called.
C22_RateStoreChangesOnlyInSuccessfulCommit ==
    /\ [][files'[RATES_FILE] # files[RATES_FILE]
          => pc = "write_rates_replace" /\ pc' = "save_to_history"]_vars
    /\ []((pc = "done" /\ result.kind = "raised")
          => files[RATES_FILE] = pre_rates)


\* C25: within one call of run_update every step of the loop over the
\* clients queries a client that was not queried before in this call:
\* fetch_rates is invoked at most once on each selected provider, whether it
\* gave rates or failed.
C25_OneFetchPerClient ==
    [][(/\ pc = "fetch" /\ pc' = "fetch"
        /\ clients_to_use # <<>>
        /\ (errors' # errors \/ clients_to_use' # clients_to_use))
       => /\ fetched[Head(clients_to_use)] = NotQueried
          /\ clients_to_use' = Tail(clients_to_use)
          /\ Head(clients_to_use) \notin Range(Tail(clients_to_use))]_vars

C25_Witness ==
    /\ runs >= 2
    /\ pc = "fetch"
    /\ FetchFailed("coingecko")
    /\ Len(errors) = 1
    /\ clients_to_use = <<"exchangerate">>


\* C26: ExchangeRateApiClient.fetch_rates, on a response that quotes
\* "1 BASE = X units of CODE", returns exactly the pairs CODE_BASE of the
\* currencies it is responsible for whose quote X is not 0, each with the
\* rate 1/X; a currency quoted 0 is left out and the call does not fail.
C26_InvertedQuotes ==
    (/\ reply.op = "fetch_rates"
     /\ reply.client = "exchangerate"
     /\ reply.resp.status = "ok")
    => LET quotes == reply.resp.data
           codes == {c \in Range(FIAT_CURRENCIES) :
                        c \in DOMAIN quotes /\ quotes[c] # 0}
       IN /\ reply.got.ok
          /\ DOMAIN reply.got.rates = {c \o "_" \o BASE_CURRENCY : c \in codes}
          /\ \A c \in codes :
                LET rate == reply.got.rates[c \o "_" \o BASE_CURRENCY]
                IN rate.d # 0 /\ RMul(rate, Rat(quotes[c], 1)) = One

C26_Witness ==
    /\ reply.op = "fetch_rates"
    /\ reply.client = "exchangerate"
    /\ reply.resp.status = "ok"
    /\ DOMAIN reply.resp.data = {"EUR", "GBP", "JPY"}
    /\ reply.resp.data["EUR"] = 0
    /\ reply.resp.data["GBP"] = MaxQuote
    /\ reply.got.rates = ("GBP_USD" :> Rat(1, MaxQuote))


\* C27: when the upstream response holds none of the currencies a provider
\* is responsible for, its fetch_rates fails with ApiRequestError: it does
\* not return an empty mapping.
C27_NoMatchIsProviderError ==
    (/\ reply.op = "fetch_rates"
     /\ reply.resp.status = "ok"
     /\ LET own == IF reply.client = "coingecko"
                   THEN Range(CRYPTO_CURRENCIES) ELSE Range(FIAT_CURRENCIES)
        IN own \cap DOMAIN reply.resp.data = {})
    => ~reply.got.ok


\* C28: every rate rates.json holds, under "pairs" and at its top level, is
\* strictly positive, after any sequence of run_update calls and whatever
\* the providers answered.
C28_StoredRatesPositive ==
    (files[RATES_FILE] # None /\ ~RatesOnDisk.torn)
    => /\ \A k \in DOMAIN RatesOnDisk.pairs : RPos(RatesOnDisk.pairs[k].rate)
       /\ \A k \in DOMAIN RatesOnDisk.top : RPos(RatesOnDisk.top[k].rate)


\* C23: an iteration of the poll loop whose run_update raised goes on to
\* the sleep and does not leave the loop; and unless stop() is called, the
\* loop calls run_update again and again, without end.
C23_LoopSurvivesFailure ==
    /\ [][(/\ sched_pc = "update" /\ sched_pc' # "update"
           /\ result.kind = "raised")
          => sched_pc' = "sleep"]_vars
    /\ (<>(sched_pc # "init" /\ ~running))
       \/ []<>(sched_pc = "update" /\ pc = "fetch")

C23_Witness ==
    /\ sched_pc = "sleep"
    /\ running
    /\ pc = "done"
    /\ result.kind = "raised"
    /\ runs >= 2

\* C24: once stop() was called while the loop was running, start() returns
\* in the end; run_update begins only right after a test of the flag that
\* found it set, so after the stop request at most the iteration under way
\* is finished, and nothing begins once start() has returned.
C24_StopEndsLoop ==
    /\ (sched_pc # "init" /\ ~running) ~> (sched_pc = "returned")
    /\ [][(pc = "idle" /\ pc' # "idle") => (sched_pc = "call" /\ sched_pc' = "update")]_vars
    /\ [][(sched_pc # "call" /\ sched_pc' = "call") => running]_vars
    /\ [][sched_pc = "returned" => sched_pc' = "returned"]_vars

C24_Witness ==
    /\ sched_pc = "returned"
    /\ ~running
    /\ HistoryOnDisk.records # <<>>


\* Both processes have ended their commit
WritersEnded == \A w \in Writers : writers[w].pc \in {"committed", "failed"}

\* C29: when two processes have committed rates.json at the same time,
\* whatever the order of their read, temp-file and rename steps, neither
\* commit has failed and rates.json is the complete value one of the two
\* wrote, not a partial or mixed file.
C29_ConcurrentCommits ==
    WritersEnded
    => /\ \A w \in Writers : writers[w].pc = "committed"
       /\ \E w \in Writers : files[RATES_FILE] = writers[w].data


\* C31: a stop request is never lost: once stop() was called, before
\* start() has set its flag or while the loop runs, start() returns in the
\* end.
C31_StopNeverLost ==
    (\/ sched_pc = "stop_before_start"
     \/ (sched_pc \notin {"init", "returned"} /\ ~running))
    ~> (sched_pc = "returned")


\* C32: when run_update has returned its summary, last_refresh of the
\* summary is the last_refresh rates.json holds and the updated_at of every
\* pair this call committed.
C32_SummaryTimestampIsStored ==
    (pc = "done" /\ result.kind = "returned")
    => /\ RatesOnDisk.last_refresh = Some(result.last_refresh)
       /\ \A k \in DOMAIN all_rates :
             RatesOnDisk.pairs[k].updated_at = result.last_refresh


\* C33: whenever no commit is under way (between calls, after a call has
\* ended, after the process was killed), every pair under "pairs" of
\* rates.json, with rate r and updated_at t, has a record in
\* exchange_rates.json whose id is "<pair>_<t>" and whose rate is r.
C33_CacheHasHistory ==
    (/\ pc \in {"idle", "done", "crashed"}
     /\ ReadJson(files, RATES_FILE) # None)
    => \A k \in DOMAIN RatesOnDisk.pairs :
          \E i \in 1..Len(RecordsIn(files[EXCHANGE_RATES_FILE])) :
             LET record == RecordsIn(files[EXCHANGE_RATES_FILE])[i]
             IN /\ record.id = record_id(k, RatesOnDisk.pairs[k].updated_at)
                /\ record.rate = RatesOnDisk.pairs[k].rate


(***************************************************************************)
(* Buying and selling in a session (SpecSession).                          *)
(***************************************************************************)
\* The balance a portfolio holds in a currency; 0 when it has no wallet
\* (get_or_create_wallet creates the wallet with balance 0.0)
BalanceOf(wallets, code) ==
    IF code \in DOMAIN wallets THEN wallets[code] ELSE Zero

\* In the step, only the wallet `code` of user `user_id` changed, and it
\* holds new_balance afterwards
OnlyWalletChanged(user_id, code, new_balance) ==
    /\ DOMAIN portfolios' = DOMAIN portfolios
    /\ \A other \in DOMAIN portfolios \ {user_id} :
          portfolios'[other] = portfolios[other]
    /\ DOMAIN portfolios'[user_id] = DOMAIN portfolios[user_id] \cup {code}
    /\ \A c \in DOMAIN portfolios[user_id] \ {code} :
          portfolios'[user_id][c] = portfolios[user_id][c]
    /\ portfolios'[user_id][code] = new_balance

\* Claim C34: a successful buy_currency(c, a) raises the persisted balance
\* of the logged-in user's wallet c by exactly a (a wallet that did not
\* exist counts as 0), a successful sell_currency(c, a) lowers it by exactly
\* a, and in both no other wallet of that user and no portfolio of another
\* user changes; this is so with either content of rates.json, the one that
\* has a rate for c and the one that has none.
C34_TradeChangesOneWallet ==
    [][/\ (reply'.op = "buy" /\ reply'.ok) =>
            /\ current_user # None
            /\ current_user[1] \in DOMAIN portfolios
            /\ LET code == upper(strip(reply'.currency))
                   wallets == portfolios[current_user[1]]
               IN OnlyWalletChanged(current_user[1], code,
                     float_add(BalanceOf(wallets, code), reply'.amount))
       /\ (reply'.op = "sell" /\ reply'.ok) =>
            /\ current_user # None
            /\ current_user[1] \in DOMAIN portfolios
            /\ LET code == upper(strip(reply'.currency))
                   wallets == portfolios[current_user[1]]
               IN /\ code \in DOMAIN wallets
                  /\ OnlyWalletChanged(current_user[1], code,
                        float_sub(wallets[code], reply'.amount))]_vars

\* Witness of C34: a purchase of euros succeeded while rates.json held no
\* rate for them, a second user with a portfolio being registered, and the
\* buyer holds another wallet besides
C34_BoughtWithoutRate ==
    /\ reply.op = "buy"
    /\ reply.ok
    /\ reply.currency = "EUR"
    /\ "EUR_USD" \notin DOMAIN load_rates(files)
    /\ Cardinality(DOMAIN portfolios) = 2
    /\ DOMAIN portfolios[current_user[1]] = {"BTC", "EUR"}


\* The wallets of the logged-in user as buy_currency and sell_currency load
\* them; no wallets when nobody is logged in or the portfolio is missing
CurrentWallets ==
    IF load_user_portfolio(current_user, portfolios) = None THEN EmptyMap
    ELSE load_user_portfolio(current_user, portfolios)[1]

\* Claim C35: sell_currency of a currency the user has no wallet for, or of
\* an amount greater than the wallet's balance, and buy_currency or
\* sell_currency with an amount <= 0, answer failure and leave the wallets
\* as loaded and the persisted portfolios as they were.
C35_RejectedTradeChangesNothing ==
    [][LET code == upper(strip(reply'.currency))
           refused ==
              \/ float_le_zero(reply'.amount)
              \/ /\ reply'.op = "sell"
                 /\ \/ code \notin DOMAIN CurrentWallets
                    \/ float_gt(reply'.amount, CurrentWallets[code])
       IN (reply'.op \in {"buy", "sell"} /\ refused) =>
             /\ ~reply'.ok
             /\ portfolios' = portfolios]_vars

\* Witness of C35: a logged-in user who holds bitcoin was refused the sale
\* of more than the wallet holds
C35_SaleAboveBalanceRefused ==
    /\ reply.op = "sell"
    /\ ~reply.ok
    /\ current_user # None
    /\ "BTC" \in DOMAIN CurrentWallets
    /\ upper(strip(reply.currency)) = "BTC"
    /\ float_gt(reply.amount, CurrentWallets["BTC"])
    /\ float_gt(CurrentWallets["BTC"], Zero)


\* The operations of PortfolioService that need a logged-in user, and the
\* replies that report their success
PortfolioOps == {"buy", "sell", "show_portfolio"}

Succeeded(answer) ==
    IF answer.op = "show_portfolio" THEN answer.kind \in {"empty", "ok"}
    ELSE answer.ok

\* Claim C36: in every sequence of register, login, logout, buy, sell and
\* show_portfolio, a buy, sell or show_portfolio succeeds only while a user
\* is logged in; with nobody logged in it fails and changes nothing that is
\* persisted (users, portfolios, the rates file); and the current user
\* changes only in a successful login or in a logout.
C36_PortfolioNeedsLogin ==
    [][/\ (reply'.op \in PortfolioOps /\ Succeeded(reply')) =>
             current_user # None
       /\ (reply'.op \in PortfolioOps /\ current_user = None) =>
             /\ ~Succeeded(reply')
             /\ UNCHANGED <<users, portfolios, files>>
       /\ current_user' # current_user =>
             \/ reply'.op = "login" /\ reply'.ok
             \/ reply'.op = "logout"]_vars

\* Witness of C36: after a logout, with a funded portfolio on disk, a
\* purchase of a valid amount was refused
C36_RefusedAfterLogout ==
    /\ reply.op = "buy"
    /\ ~reply.ok
    /\ reply.amount = One
    /\ current_user = None
    /\ \E u \in DOMAIN portfolios : "BTC" \in DOMAIN portfolios[u]


\* The user_ids and usernames stored in users.json
StoredUserIds == {users[i].user_id : i \in 1..Len(users)}

StoredUsernames == {users[i].username : i \in 1..Len(users)}

\* Claim C37: after any sequence of register_user calls the stored
\* usernames are pairwise distinct, the stored user_ids are pairwise
\* distinct and every stored user has exactly one portfolio, the one with
\* its user_id; a rejected registration (blank username, password shorter
\* than 4, username taken) changes neither users nor portfolios, so no stored
\* user has a blank name or a short password, and an accepted one appends one
\* user with an id that no user and no portfolio had.
C37_RegistrationKeepsUsersConsistent ==
    /\ [](/\ Cardinality(StoredUsernames) = Len(users)
          /\ Cardinality(StoredUserIds) = Len(users)
          /\ DOMAIN portfolios = StoredUserIds
          /\ \A i \in 1..Len(users) :
                /\ strip(users[i].username) # ""
                /\ \A password \in Passwords :
                      verify_password(users[i], password) => Len(password) >= 4)
    /\ [][reply'.op = "register" =>
            IF reply'.ok
            THEN /\ Len(users') = Len(users) + 1
                 /\ SubSeq(users', 1, Len(users)) = users
                 /\ users'[Len(users')].user_id \notin StoredUserIds
                 /\ users'[Len(users')].user_id \notin DOMAIN portfolios
                 /\ users'[Len(users')].username \notin StoredUsernames
                 /\ \A u \in DOMAIN portfolios : portfolios'[u] = portfolios[u]
            ELSE users' = users /\ portfolios' = portfolios]_vars

\* Witness of C37: two users are stored, one of them holds a wallet, and a
\* further registration was rejected
C37_RejectedWithTwoUsers ==
    /\ reply.op = "register"
    /\ ~reply.ok
    /\ Len(users) = 2
    /\ \E u \in DOMAIN portfolios : DOMAIN portfolios[u] # {}


\* Claim C38: the two valuations of a portfolio agree: for every set of
\* wallets, base currency and cached rates, the total returned by
\* Portfolio.get_total_value is the total (ИТОГО) show_portfolio computes
\* for the same wallets, base and rates, also when a held currency has only
\* the inverse rate BASE_CODE cached.
C38_ValuationsAgree ==
    (/\ reply.op = "get_total_value"
     /\ current_user # None
     /\ current_user[1] \in DOMAIN portfolios)
    => LET shown == show_portfolio(current_user, portfolios, reply.base,
                                   load_rates(files))
       IN shown.kind = "ok" => reply.total = shown.total

====
